---- MODULE Spec2Model ----
(***************************************************************************)
(* LHDiff: Myers exact aligner (src/src/diff/diff.py), block matcher       *)
(* (src/src/diff/matcher.py), hybrid diff (src/src/diff/diff_hybrid.py)    *)
(* and bug-signature extraction (src/src/bug_signature.py).                *)
(*                                                                         *)
(* A Python str is a sequence of one-character strings; a line of a file   *)
(* is such a sequence, and a diff token ("3:4", "2~5", "7-", "1+") is one  *)
(* too, produced by formatting and read back by parsing.                   *)
(***************************************************************************)
EXTENDS Integers, Sequences, FiniteSets, TLC

(* ---------------------------------------------------------------------- *)
(* Bounds of the checked input space                                       *)
(* ---------------------------------------------------------------------- *)
\* longest old / new file of the checked calls, in lines
MaxOld == 2
MaxNew == 2
\* highest version of a file, which is the fix version of the checked traces
MaxVersion == 3
\* most matches of the checked confidence calls
MaxMatches == 3

(* ---------------------------------------------------------------------- *)
(* Python str / list primitives                                            *)
(* ---------------------------------------------------------------------- *)
Digits == <<"0", "1", "2", "3", "4", "5", "6", "7", "8", "9">>

RECURSIVE NatToStr(_)
NatToStr(n) ==
    IF n < 10 THEN <<Digits[n + 1]>>
    ELSE NatToStr(n \div 10) \o <<Digits[(n % 10) + 1]>>

\* f"{n}" for an int n
IntToStr(n) == IF n < 0 THEN <<"-">> \o NatToStr(0 - n) ELSE NatToStr(n)

DigitVal(c) == CHOOSE d \in 0..9 : Digits[d + 1] = c

RECURSIVE StrToNat(_)
StrToNat(s) ==
    IF Len(s) = 1 THEN DigitVal(s[1])
    ELSE 10 * StrToNat(SubSeq(s, 1, Len(s) - 1)) + DigitVal(s[Len(s)])

\* int(s) for a well-formed decimal literal with an optional sign
StrToInt(s) ==
    IF s[1] = "-" THEN 0 - StrToNat(Tail(s))
    ELSE IF s[1] = "+" THEN StrToNat(Tail(s))
    ELSE StrToNat(s)

\* c in s
Contains(s, c) == \E i \in 1..Len(s) : s[i] = c

\* s.endswith(c)
EndsWith(s, c) == Len(s) > 0 /\ s[Len(s)] = c

\* s[:-1]
DropLast(s) == SubSeq(s, 1, Len(s) - 1)

\* position of the first occurrence of c in s (c must occur)
FirstPos(s, c) == CHOOSE i \in 1..Len(s) : s[i] = c /\ \A j \in 1..(i - 1) : s[j] # c

\* the two fields of s.split(c) when c occurs exactly once in s
SplitLeft(s, c) == SubSeq(s, 1, FirstPos(s, c) - 1)
SplitRight(s, c) == SubSeq(s, FirstPos(s, c) + 1, Len(s))

\* list(reversed(s))
Reverse(s) == [i \in 1..Len(s) |-> s[Len(s) + 1 - i]]

\* dict.get(k, d)
Get(V, k, d) == IF k \in DOMAIN V THEN V[k] ELSE d

\* dict with d[k] = v set
Put(V, k, v) == [j \in (DOMAIN V) \cup {k} |-> IF j = k THEN v ELSE V[j]]

\* the empty dict
EmptyDict == [j \in {} |-> 0]

Min2(a, b) == IF a <= b THEN a ELSE b
Max2(a, b) == IF a >= b THEN a ELSE b

(* ---------------------------------------------------------------------- *)
(* Diff tokens as text                                                     *)
(* ---------------------------------------------------------------------- *)
MatchTok(x, y) == IntToStr(x) \o <<":">> \o IntToStr(y)
SimTok(x, y) == IntToStr(x) \o <<"~">> \o IntToStr(y)
DelTok(x) == IntToStr(x) \o <<"-">>
InsTok(y) == IntToStr(y) \o <<"+">>

(* ---------------------------------------------------------------------- *)
(* Myers aligner: get_diff and reconstruct_from_trace                      *)
(* A 0-based Python index i of a list is element i+1 of the sequence.      *)
(* ---------------------------------------------------------------------- *)

\* the snake of get_diff: x after running down the diagonal k = x - y
RECURSIVE Snake(_, _, _, _)
Snake(old, new, x, y) ==
    IF x < Len(old) /\ y < Len(new) /\ old[x + 1] = new[y + 1]
    THEN Snake(old, new, x + 1, y + 1)
    ELSE x

\* ForwardStart with the comparison of the two neighbours turned round: the
\* diagonal is entered from the neighbour that has gone less far
ForwardStartNearest(frontier, ops, k) ==
    IF k = 0 - ops \/ (k # ops /\ Get(frontier, k - 1, -1) > Get(frontier, k + 1, 0))
    THEN Get(frontier, k + 1, 0)
    ELSE Get(frontier, k - 1, 0) + 1

\* x chosen for diagonal k at distance ops from the previous frontier
ForwardStart(frontier, ops, k) ==
    IF k = 0 - ops \/ (k # ops /\ Get(frontier, k - 1, -1) < Get(frontier, k + 1, 0))
    THEN Get(frontier, k + 1, 0)
    ELSE Get(frontier, k - 1, 0) + 1

\* the test of line 65: diagonal k is entered from diagonal k + 1, by an
\* insertion
ForwardIsInsert(frontier, ops, k) ==
    k = 0 - ops \/ (k # ops /\ Get(frontier, k - 1, -1) < Get(frontier, k + 1, 0))

\* the loop "for k in range(-ops, ops+1, 2)"; stops at the first diagonal
\* that reaches the end of both files
RECURSIVE ForwardRow(_, _, _, _, _, _)
ForwardRow(old, new, frontier, ops, k, V) ==
    IF k > ops THEN [V |-> V, done |-> FALSE]
    ELSE LET x0 == ForwardStart(frontier, ops, k)
             y0 == x0 - k
         IN  IF y0 < 0 THEN ForwardRow(old, new, frontier, ops, k + 2, V)
             ELSE LET x == Snake(old, new, x0, y0)
                      y == x - k
                      V2 == Put(V, k, x)
                  IN  IF x >= Len(old) /\ y >= Len(new)
                      THEN [V |-> V2, done |-> TRUE]
                      ELSE ForwardRow(old, new, frontier, ops, k + 2, V2)

\* the loop "for ops in range(max_diffs+1)"; trace[D+1] is the V of distance D
RECURSIVE ForwardPass(_, _, _, _, _)
ForwardPass(old, new, frontier, ops, trace) ==
    IF ops > Len(old) + Len(new) THEN [trace |-> trace, returned |-> FALSE]
    ELSE LET row == ForwardRow(old, new, frontier, ops, 0 - ops, EmptyDict)
         IN  IF row.done
             THEN [trace |-> Append(trace, row.V), returned |-> TRUE]
             ELSE ForwardPass(old, new, row.V, ops + 1, Append(trace, row.V))

\* BackwardIsInsert that takes diagonal k + 1 when the two neighbours have
\* gone equally far
BackwardIsInsertOnTie(V, D, k) ==
    k = 0 - D \/ (k # D /\ Get(V, k - 1, -1) <= Get(V, k + 1, -1))

\* predecessor diagonal chosen by reconstruct_from_trace at distance D
BackwardIsInsert(V, D, k) ==
    k = 0 - D \/ (k # D /\ Get(V, k - 1, -1) < Get(V, k + 1, -1))

\* "while x > x_prev and y > y_prev": the match tokens of one snake, newest first
RECURSIVE SnakeBack(_, _, _, _, _)
SnakeBack(x, y, x_prev, y_prev, edits) ==
    IF x > x_prev /\ y > y_prev
    THEN SnakeBack(x - 1, y - 1, x_prev, y_prev, Append(edits, MatchTok(x - 1, y - 1)))
    ELSE [x |-> x, y |-> y, edits |-> edits]

\* "for D in reversed(range(len(trace)))"
RECURSIVE ReconLoop(_, _, _, _, _)
ReconLoop(trace, D, x, y, edits) ==
    IF D < 0 THEN edits
    ELSE IF D = 0 THEN SnakeBack(x, y, 0, 0, edits).edits
    ELSE LET V == trace[D]
             k == x - y
             ins == BackwardIsInsert(V, D, k)
             k_prev == IF ins THEN k + 1 ELSE k - 1
             x_prev == Get(V, k_prev, 0)
             y_prev == x_prev - k_prev
             s == SnakeBack(x, y, x_prev, y_prev, edits)
         IN  IF ins
             THEN ReconLoop(trace, D - 1, s.x, s.y - 1, Append(s.edits, InsTok(s.y - 1)))
             ELSE ReconLoop(trace, D - 1, s.x - 1, s.y, Append(s.edits, DelTok(s.x - 1)))

reconstruct_from_trace(old, new, trace) ==
    Reverse(ReconLoop(trace, Len(trace) - 1, Len(old), Len(new), <<>>))

\* the value of a function that falls off its end
None == <<<<"N", "o", "n", "e">>>>

get_diff(old, new) ==
    LET fp == ForwardPass(old, new, Put(EmptyDict, 1, 0), 0, <<>>)
    IN  IF fp.returned THEN reconstruct_from_trace(old, new, fp.trace) ELSE None

(* ---------------------------------------------------------------------- *)
(* Python float: IEEE 754 binary64 with round-to-nearest-even.             *)
(* A natural number of any size is a little-endian sequence of limbs in    *)
(* base 2^15 without leading zero limbs (<<>> is 0).  A finite float >= 0  *)
(* is [m, e] of value m * 2^e, m = 0 or 2^52 <= m < 2^53.  The exponent    *)
(* range (overflow, subnormals) is not reached by the values computed here *)
(* and is not modelled.                                                    *)
(* ---------------------------------------------------------------------- *)
LimbBits == 15
Base == 2^LimbBits
MantBits == 53

RECURSIVE BigTrim(_)
BigTrim(a) ==
    IF Len(a) > 0 /\ a[Len(a)] = 0 THEN BigTrim(SubSeq(a, 1, Len(a) - 1)) ELSE a

\* n < 2^31 as limbs
BigFromNat(n) == BigTrim(<<n % Base, (n \div Base) % Base, n \div (Base * Base)>>)

Limb(a, i) == IF i <= Len(a) THEN a[i] ELSE 0

RECURSIVE BigCmpFrom(_, _, _)
BigCmpFrom(a, b, i) ==
    IF i = 0 THEN 0
    ELSE IF a[i] < b[i] THEN -1
    ELSE IF a[i] > b[i] THEN 1
    ELSE BigCmpFrom(a, b, i - 1)

\* -1, 0, 1 as a < b, a = b, a > b
BigCmp(a, b) ==
    IF Len(a) < Len(b) THEN -1
    ELSE IF Len(a) > Len(b) THEN 1
    ELSE BigCmpFrom(a, b, Len(a))

\* limbs i.. of a + b + carry
RECURSIVE BigAddFrom(_, _, _, _)
BigAddFrom(a, b, i, carry) ==
    IF i > Len(a) /\ i > Len(b)
    THEN (IF carry = 0 THEN <<>> ELSE <<carry>>)
    ELSE LET t == Limb(a, i) + Limb(b, i) + carry
         IN  <<t % Base>> \o BigAddFrom(a, b, i + 1, t \div Base)

BigAdd(a, b) ==
    IF Len(a) = 0 THEN b ELSE IF Len(b) = 0 THEN a ELSE BigAddFrom(a, b, 1, 0)

\* limbs i.. of a - b - borrow
RECURSIVE BigSubFrom(_, _, _, _)
BigSubFrom(a, b, i, borrow) ==
    IF i > Len(a) THEN <<>>
    ELSE LET t == a[i] - Limb(b, i) - borrow
         IN  IF t < 0 THEN <<t + Base>> \o BigSubFrom(a, b, i + 1, 1)
             ELSE <<t>> \o BigSubFrom(a, b, i + 1, 0)

\* a - b for a >= b
BigSub(a, b) == IF Len(b) = 0 THEN a ELSE BigTrim(BigSubFrom(a, b, 1, 0))

\* limbs i.. of a * s + carry
RECURSIVE BigMulSmallFrom(_, _, _, _)
BigMulSmallFrom(a, s, i, carry) ==
    IF i > Len(a)
    THEN (IF carry = 0 THEN <<>> ELSE <<carry>>)
    ELSE LET t == a[i] * s + carry
         IN  <<t % Base>> \o BigMulSmallFrom(a, s, i + 1, t \div Base)

\* a * s for 0 <= s < Base
BigMulSmall(a, s) ==
    IF s = 0 \/ Len(a) = 0 THEN <<>>
    ELSE IF s = 1 THEN a
    ELSE BigMulSmallFrom(a, s, 1, 0)

ZeroLimbs(n) == [i \in 1..n |-> 0]

\* a * Base^n
BigShlLimbs(a, n) == IF Len(a) = 0 THEN <<>> ELSE ZeroLimbs(n) \o a

\* a * b, of which acc holds a * (limbs 1..i-1 of b); Len(acc) is never
\* negative: the test makes each step add its row before the next begins
RECURSIVE BigMulFrom(_, _, _, _)
BigMulFrom(a, b, i, acc) ==
    IF i > Len(b) \/ Len(acc) < 0 THEN acc
    ELSE BigMulFrom(a, b, i + 1, BigAdd(acc, BigShlLimbs(BigMulSmall(a, b[i]), i - 1)))

BigMul(a, b) == BigMulFrom(a, b, 1, <<>>)

\* a * 2^s
BigShl(a, s) == BigShlLimbs(BigMulSmall(a, 2^(s % LimbBits)), s \div LimbBits)

\* floor(a / 2^s)
BigShr(a, s) ==
    LET drop == s \div LimbBits
        r == s % LimbBits
        lo == 2^r
        hi == 2^(LimbBits - r)
        n == Len(a) - drop
    IN  IF n <= 0 THEN <<>>
        ELSE BigTrim([i \in 1..n |->
                 (a[drop + i] \div lo) + (Limb(a, drop + i + 1) % lo) * hi])

\* number of bits of 0 <= n < Base
NatBitLen(n) == CHOOSE k \in 0..LimbBits : n < 2^k /\ (k = 0 \/ n >= 2^(k - 1))

BigBitLen(a) ==
    IF Len(a) = 0 THEN 0 ELSE (Len(a) - 1) * LimbBits + NatBitLen(a[Len(a)])

BigIsOdd(a) == Len(a) > 0 /\ a[1] % 2 = 1

\* the quotient limb floor(r / d) for r < d * Base, at most 2 below the
\* estimate qhat made from the leading limbs
BigDivDigit(r, d, qhat) ==
    CHOOSE q \in {qhat - 2, qhat - 1, qhat} :
        /\ q >= 0
        /\ BigCmp(BigMulSmall(d, q), r) <= 0
        /\ (q = qhat \/ BigCmp(BigMulSmall(d, q + 1), r) > 0)

\* schoolbook long division of n by d (top limb >= Base/2): one quotient limb
\* per step, from limb Len(n) - Len(q) of n downwards, until q has as many
\* limbs as n; r < d is the running remainder
RECURSIVE BigDivLoop(_, _, _, _)
BigDivLoop(n, d, q, r) ==
    IF Len(q) >= Len(n) THEN [q |-> BigTrim(q), r |-> r]
    ELSE LET r1 == BigTrim(<<n[Len(n) - Len(q)]>> \o r)
             k == Len(d)
             est == (Limb(r1, k + 1) * Base + Limb(r1, k)) \div d[k]
             digit == BigDivDigit(r1, d, IF est > Base - 1 THEN Base - 1 ELSE est)
         IN  BigDivLoop(n, d, <<digit>> \o q, BigSub(r1, BigMulSmall(d, digit)))

\* quotient and remainder of n by d > 0; the leading Len(d) - 1 limbs of n
\* are the first remainder and give zero quotient limbs
BigDivMod(n, d) ==
    LET s == LimbBits - NatBitLen(d[Len(d)])
        nn == BigShl(n, s)
        dd == BigShl(d, s)
        skip == Min2(Len(dd) - 1, Len(nn))
        res == BigDivLoop(nn, dd, ZeroLimbs(skip),
                          BigTrim(SubSeq(nn, Len(nn) - skip + 1, Len(nn))))
    IN  [q |-> res.q, r |-> BigShr(res.r, s)]

\* Newton's iteration for the integer square root, from x >= floor(sqrt(n))
RECURSIVE BigSqrtLoop(_, _)
BigSqrtLoop(n, x) ==
    LET y == BigShr(BigAdd(x, BigDivMod(n, x).q), 1)
    IN  IF BigCmp(y, x) >= 0 THEN x ELSE BigSqrtLoop(n, y)

\* the same iteration on a machine-sized natural number
RECURSIVE NatSqrtLoop(_, _)
NatSqrtLoop(t, x) ==
    LET y == (x + t \div x) \div 2
    IN  IF y >= x THEN x ELSE NatSqrtLoop(t, y)

\* floor(sqrt(n)); the iteration starts just above the root of the leading bits
BigSqrt(n) ==
    IF Len(n) = 0 THEN <<>>
    ELSE LET nb == BigBitLen(n)
             low == IF nb <= 30 THEN 0 ELSE IF (nb - 30) % 2 = 0 THEN nb - 30 ELSE nb - 29
             top == BigShr(n, low)
             t == Limb(top, 2) * Base + Limb(top, 1)
             g == NatSqrtLoop(t, 2^((BigBitLen(top) + 1) \div 2)) + 1
         IN  BigSqrtLoop(n, BigShl(BigFromNat(g), low \div 2))

FZero == [m |-> <<>>, e |-> 0]

FIsZero(a) == Len(a.m) = 0

\* the float nearest to (n + f) * 2^e, ties to even, where 0 < f < 1 if
\* sticky and f = 0 otherwise
FRound(n, e, sticky) ==
    LET nb == BigBitLen(n)
    IN  IF nb = 0 THEN FZero
        ELSE IF nb <= MantBits
        THEN [m |-> BigShl(n, MantBits - nb), e |-> e - (MantBits - nb)]
        ELSE LET sh == nb - MantBits
                 q == BigShr(n, sh)
                 rem == BigSub(n, BigShl(q, sh))
                 c == BigCmp(rem, BigShl(<<1>>, sh - 1))
                 up == c > 0 \/ (c = 0 /\ (sticky \/ BigIsOdd(q)))
                 q2 == IF up THEN BigAdd(q, <<1>>) ELSE q
             IN  IF BigBitLen(q2) > MantBits
                 THEN [m |-> BigShr(q2, 1), e |-> e + sh + 1]
                 ELSE [m |-> q2, e |-> e + sh]

\* float(n) for an int n >= 0
FFromInt(n) == FRound(BigFromNat(n), 0, FALSE)

\* -1, 0, 1 as a < b, a = b, a > b
FCmp(a, b) ==
    IF FIsZero(a) THEN (IF FIsZero(b) THEN 0 ELSE -1)
    ELSE IF FIsZero(b) THEN 1
    ELSE IF a.e < b.e THEN -1
    ELSE IF a.e > b.e THEN 1
    ELSE BigCmp(a.m, b.m)

FLt(a, b) == FCmp(a, b) < 0
FLe(a, b) == FCmp(a, b) <= 0

\* a * b
FMul(a, b) ==
    IF FIsZero(a) \/ FIsZero(b) THEN FZero
    ELSE FRound(BigMul(a.m, b.m), a.e + b.e, FALSE)

\* a / b for b > 0 (the callers test the divisor before they divide)
FDiv(a, b) ==
    IF FIsZero(b) \/ FIsZero(a) THEN FZero
    ELSE LET dm == BigDivMod(BigShl(a.m, MantBits + 4), b.m)
         IN  FRound(dm.q, a.e - b.e - (MantBits + 4), Len(dm.r) > 0)

\* math.sqrt(a)
FSqrt(a) ==
    IF FIsZero(a) THEN FZero
    ELSE LET odd == a.e % 2 = 1
             m2 == IF odd THEN BigShl(a.m, 1) ELSE a.m
             e2 == IF odd THEN a.e - 1 ELSE a.e
             n == BigShl(m2, MantBits + 5)
             root == BigSqrt(n)
         IN  FRound(root, (e2 - (MantBits + 5)) \div 2, BigCmp(BigMul(root, root), n) # 0)

\* a + b
FAdd(a, b) ==
    IF FIsZero(a) THEN b
    ELSE IF FIsZero(b) THEN a
    ELSE LET hi == IF a.e >= b.e THEN a ELSE b
             lo == IF a.e >= b.e THEN b ELSE a
             d == hi.e - lo.e
         IN  IF d > MantBits + 7 THEN hi
             ELSE FRound(BigAdd(BigShl(hi.m, d), lo.m), lo.e, FALSE)

\* a - b for a >= b
FSub(a, b) ==
    IF FIsZero(b) THEN a
    ELSE LET d == a.e - b.e
         IN  IF d > MantBits + 7 THEN a
             ELSE FRound(BigSub(BigShl(a.m, d), b.m), b.e, FALSE)

F0 == FZero
F1 == FFromInt(1)

\* the float written as the decimal literal n/10^k is the float nearest to it
FLit(n, d) == FDiv(FFromInt(n), FFromInt(d))

(* ---------------------------------------------------------------------- *)
(* Similarity scorer: src/src/diff/matcher.py                              *)
(* ---------------------------------------------------------------------- *)
Min3(a, b, c) == Min2(a, Min2(b, c))

\* "for j in range(1, n + 1)": row i of the table dp, of which row holds
\* dp[i][0..j-1]; prev is dp[i-1]
RECURSIVE LevRow(_, _, _, _, _)
LevRow(a, b, i, prev, row) ==
    IF Len(row) > Len(b) THEN row
    ELSE LET j == Len(row)
             cost == IF a[i] = b[j] THEN 0 ELSE 1
         IN  LevRow(a, b, i, prev,
                    Append(row, Min3(prev[j + 1] + 1, row[j] + 1, prev[j] + cost)))

\* "for i in range(1, m + 1)": dp holds the rows dp[0..i-1]
RECURSIVE LevRows(_, _, _)
LevRows(a, b, dp) ==
    IF Len(dp) > Len(a) THEN dp
    ELSE LevRows(a, b, Append(dp, LevRow(a, b, Len(dp), dp[Len(dp)], <<Len(dp)>>)))

levenshtein(a, b) ==
    IF a = b THEN 0
    ELSE IF Len(a) = 0 THEN Len(b)
    ELSE IF Len(b) = 0 THEN Len(a)
    ELSE LevRows(a, b, <<[j \in 1..(Len(b) + 1) |-> j - 1]>>)[Len(a) + 1][Len(b) + 1]

normalized_levenshtein(a, b) ==
    IF Len(a) = 0 /\ Len(b) = 0 THEN F1
    ELSE LET dist == levenshtein(a, b)
             max_len == Max2(Len(a), Len(b))
         IN  FSub(F1, FDiv(FFromInt(dist), FFromInt(max_len)))

\* the characters str.strip() and str.split() treat as white space
Whitespace == {" ", "\t", "\n", "\r"}

\* text.strip() is empty
IsBlank(text) == \A i \in 1..Len(text) : text[i] \in Whitespace

\* text.split(): the maximal runs of non-white-space characters, in order;
\* word is the run being read
RECURSIVE SplitFrom(_, _, _)
SplitFrom(text, i, word) ==
    IF i > Len(text) THEN (IF Len(word) = 0 THEN <<>> ELSE <<word>>)
    ELSE IF text[i] \in Whitespace
    THEN (IF Len(word) = 0 THEN <<>> ELSE <<word>>) \o SplitFrom(text, i + 1, <<>>)
    ELSE SplitFrom(text, i + 1, Append(word, text[i]))

Split(text) == SplitFrom(text, 1, <<>>)

\* " ".join(parts)
RECURSIVE JoinSpace(_)
JoinSpace(parts) ==
    IF Len(parts) = 0 THEN <<>>
    ELSE IF Len(parts) = 1 THEN parts[1]
    ELSE parts[1] \o <<" ">> \o JoinSpace(Tail(parts))

\* collections.Counter(words)
Counter(words) ==
    [w \in {words[i] : i \in 1..Len(words)} |->
        Cardinality({i \in 1..Len(words) : words[i] = w})]

\* sum(f[w] for w in S) of a dict of ints
RECURSIVE SumOver(_, _)
SumOver(f, S) ==
    IF S = {} THEN 0
    ELSE LET w == CHOOSE u \in S : TRUE IN f[w] + SumOver(f, S \ {w})

\* lines[start:end] of get_context, joined (idx is 0-based)
get_context(lines, idx, window) ==
    LET start == Max2(0, idx - window)
        end == Min2(Len(lines), idx + window + 1)
    IN  JoinSpace(SubSeq(lines, start + 1, end))

\* dot / (norm1 * norm2), 0.0 if a norm is 0
CosineOf(dot, norm1, norm2) ==
    IF FIsZero(norm1) \/ FIsZero(norm2) THEN F0
    ELSE FDiv(FFromInt(dot), FMul(norm1, norm2))

cosine_similarity(text1, text2) ==
    IF IsBlank(text1) /\ IsBlank(text2) THEN F1
    ELSE IF IsBlank(text1) \/ IsBlank(text2) THEN F0
    ELSE LET c1 == Counter(Split(text1))
             c2 == Counter(Split(text2))
             common == (DOMAIN c1) \cap (DOMAIN c2)
         IN  CosineOf(SumOver([w \in common |-> c1[w] * c2[w]], common),
                      FSqrt(FFromInt(SumOver([w \in DOMAIN c1 |-> c1[w] * c1[w]], DOMAIN c1))),
                      FSqrt(FFromInt(SumOver([w \in DOMAIN c2 |-> c2[w] * c2[w]], DOMAIN c2))))

combined_similarity(line_a, line_b, ctx_a, ctx_b, alpha) ==
    LET content_sim == normalized_levenshtein(line_a, line_b)
        context_sim == cosine_similarity(ctx_a, ctx_b)
    IN  FAdd(FMul(alpha, content_sim), FMul(FSub(F1, alpha), context_sim))

\* default arguments
DefaultAlpha == FLit(6, 10)
DefaultThreshold == FLit(6, 10)
DefaultContextWindow == 4

(* ---------------------------------------------------------------------- *)
(* difflib.SequenceMatcher(a, b, autojunk=False).get_opcodes(), the        *)
(* library call of match_lines: longest matching block first (earliest in  *)
(* a, then earliest in b), then the same to its left and to its right.     *)
(* All positions are 0-based and ranges are half-open, as in Python.       *)
(* ---------------------------------------------------------------------- *)

\* length of the common run of a[i:ahi] and b[j:bhi]
RECURSIVE CommonRun(_, _, _, _, _, _)
CommonRun(a, b, i, j, ahi, bhi) ==
    IF i < ahi /\ j < bhi /\ a[i + 1] = b[j + 1]
    THEN 1 + CommonRun(a, b, i + 1, j + 1, ahi, bhi)
    ELSE 0

\* find_longest_match(alo, ahi, blo, bhi)
find_longest_match(a, b, alo, ahi, blo, bhi) ==
    LET cand == {<<i, j>> \in (alo..(ahi - 1)) \X (blo..(bhi - 1)) : a[i + 1] = b[j + 1]}
    IN  IF cand = {} THEN [i |-> alo, j |-> blo, k |-> 0]
        ELSE LET len(p) == CommonRun(a, b, p[1], p[2], ahi, bhi)
                 best == CHOOSE p \in cand :
                            \A q \in cand :
                                \/ len(p) > len(q)
                                \/ /\ len(p) = len(q)
                                   /\ (p[1] < q[1] \/ (p[1] = q[1] /\ p[2] <= q[2]))
             IN  [i |-> best[1], j |-> best[2], k |-> len(best)]

\* the non-empty blocks of get_matching_blocks, ascending
RECURSIVE MatchingBlocksIn(_, _, _, _, _, _)
MatchingBlocksIn(a, b, alo, ahi, blo, bhi) ==
    LET m == find_longest_match(a, b, alo, ahi, blo, bhi)
    IN  IF m.k = 0 THEN <<>>
        ELSE (IF alo < m.i /\ blo < m.j
              THEN MatchingBlocksIn(a, b, alo, m.i, blo, m.j) ELSE <<>>)
             \o <<m>> \o
             (IF m.i + m.k < ahi /\ m.j + m.k < bhi
              THEN MatchingBlocksIn(a, b, m.i + m.k, ahi, m.j + m.k, bhi) ELSE <<>>)

\* adjacent blocks are merged into one
RECURSIVE CollapseBlocks(_)
CollapseBlocks(blocks) ==
    IF Len(blocks) < 2 THEN blocks
    ELSE LET b1 == blocks[1]
             b2 == blocks[2]
         IN  IF b1.i + b1.k = b2.i /\ b1.j + b1.k = b2.j
             THEN CollapseBlocks(<<[i |-> b1.i, j |-> b1.j, k |-> b1.k + b2.k]>>
                                 \o SubSeq(blocks, 3, Len(blocks)))
             ELSE <<b1>> \o CollapseBlocks(Tail(blocks))

\* get_matching_blocks(), with the closing block (len(a), len(b), 0)
get_matching_blocks(a, b) ==
    Append(CollapseBlocks(MatchingBlocksIn(a, b, 0, Len(a), 0, Len(b))),
           [i |-> Len(a), j |-> Len(b), k |-> 0])

\* the loop of get_opcodes over the matching blocks from block n, at (i, j)
RECURSIVE OpcodesFrom(_, _, _, _)
OpcodesFrom(blocks, n, i, j) ==
    IF n > Len(blocks) THEN <<>>
    ELSE LET m == blocks[n]
             tag == IF i < m.i /\ j < m.j THEN "replace"
                    ELSE IF i < m.i THEN "delete"
                    ELSE IF j < m.j THEN "insert"
                    ELSE ""
         IN  (IF tag # "" THEN <<[tag |-> tag, i1 |-> i, i2 |-> m.i, j1 |-> j, j2 |-> m.j]>>
              ELSE <<>>)
             \o (IF m.k > 0
                 THEN <<[tag |-> "equal", i1 |-> m.i, i2 |-> m.i + m.k,
                         j1 |-> m.j, j2 |-> m.j + m.k]>>
                 ELSE <<>>)
             \o OpcodesFrom(blocks, n + 1, m.i + m.k, m.j + m.k)

get_opcodes(a, b) == OpcodesFrom(get_matching_blocks(a, b), 1, 0, 0)

(* ---------------------------------------------------------------------- *)
(* Block matcher: match_lines of src/src/diff/matcher.py                   *)
(* mapping is the dict old index -> new index (0-based), used_new a set.   *)
(* ---------------------------------------------------------------------- *)

\* best_new = None
NoIndex == -1

\* "for off in range(i2 - i1)" of an 'equal' opcode
RECURSIVE EqualBlock(_, _, _)
EqualBlock(op, off, st) ==
    IF off >= op.i2 - op.i1 THEN st
    ELSE EqualBlock(op, off + 1,
                    [st EXCEPT !.mapping = Put(@, op.i1 + off, op.j1 + off),
                               !.used_new = @ \cup {op.j1 + off}])

\* first pass: "for tag, i1, i2, j1, j2 in opcodes"
RECURSIVE FirstPass(_, _, _)
FirstPass(opcodes, n, st) ==
    IF n > Len(opcodes) THEN st
    ELSE LET op == opcodes[n]
         IN  IF op.tag = "equal"
             THEN FirstPass(opcodes, n + 1, EqualBlock(op, 0, st))
             ELSE FirstPass(opcodes, n + 1,
                            [st EXCEPT !.unmatched_blocks = Append(@, op)])

\* "for new_idx in new_range": the best unused new index for old_idx;
\* BestNewStep is "if score > best_score" for the score of new_idx
RECURSIVE BestNew(_, _, _, _, _, _, _, _)
RECURSIVE BestNewStep(_, _, _, _, _, _, _, _, _)
BestNew(old_lines, new_lines, old_idx, new_idx, j2, used_new, window, best) ==
    IF new_idx >= j2 THEN best
    ELSE IF new_idx \in used_new
    THEN BestNew(old_lines, new_lines, old_idx, new_idx + 1, j2, used_new, window, best)
    ELSE BestNewStep(old_lines, new_lines, old_idx, new_idx, j2, used_new, window, best,
                     combined_similarity(old_lines[old_idx + 1], new_lines[new_idx + 1],
                                         get_context(old_lines, old_idx, window),
                                         get_context(new_lines, new_idx, window),
                                         DefaultAlpha))

\* BestNewStep that also takes a new index whose score equals the best: of
\* equal scores the last wins
BestNewStepLastOnTie(old_lines, new_lines, old_idx, new_idx, j2, used_new, window, best, score) ==
    IF FLe(best.score, score)
    THEN BestNew(old_lines, new_lines, old_idx, new_idx + 1, j2, used_new, window,
                 [new |-> new_idx, score |-> score])
    ELSE BestNew(old_lines, new_lines, old_idx, new_idx + 1, j2, used_new, window, best)

BestNewStep(old_lines, new_lines, old_idx, new_idx, j2, used_new, window, best, score) ==
    IF FLt(best.score, score)
    THEN BestNew(old_lines, new_lines, old_idx, new_idx + 1, j2, used_new, window,
                 [new |-> new_idx, score |-> score])
    ELSE BestNew(old_lines, new_lines, old_idx, new_idx + 1, j2, used_new, window, best)

\* "for old_idx in old_range" of one unmatched block; FuzzyBlockStep is
\* "if best_new is not None and best_score >= similarity_threshold"
RECURSIVE FuzzyBlock(_, _, _, _, _, _, _)
RECURSIVE FuzzyBlockStep(_, _, _, _, _, _, _, _)
FuzzyBlock(old_lines, new_lines, blk, old_idx, window, threshold, st) ==
    IF old_idx >= blk.i2 THEN st
    ELSE IF old_idx \in DOMAIN st.mapping
    THEN FuzzyBlock(old_lines, new_lines, blk, old_idx + 1, window, threshold, st)
    ELSE FuzzyBlockStep(old_lines, new_lines, blk, old_idx, window, threshold, st,
                        BestNew(old_lines, new_lines, old_idx, blk.j1, blk.j2,
                                st.used_new, window, [new |-> NoIndex, score |-> F0]))

FuzzyBlockStep(old_lines, new_lines, blk, old_idx, window, threshold, st, best) ==
    IF best.new # NoIndex /\ FLe(threshold, best.score)
    THEN FuzzyBlock(old_lines, new_lines, blk, old_idx + 1, window, threshold,
                    [st EXCEPT !.mapping = Put(@, old_idx, best.new),
                               !.used_new = @ \cup {best.new}])
    ELSE FuzzyBlock(old_lines, new_lines, blk, old_idx + 1, window, threshold, st)

\* second pass: "for (i1, i2), (j1, j2) in unmatched_blocks"
RECURSIVE SecondPass(_, _, _, _, _, _)
SecondPass(old_lines, new_lines, n, window, threshold, st) ==
    IF n > Len(st.unmatched_blocks) THEN st
    ELSE SecondPass(old_lines, new_lines, n + 1, window, threshold,
                    FuzzyBlock(old_lines, new_lines, st.unmatched_blocks[n],
                               st.unmatched_blocks[n].i1, window, threshold, st))

\* sorted(S) for a set of ints
RECURSIVE Sorted(_)
Sorted(S) ==
    IF S = {} THEN <<>>
    ELSE LET lo == CHOOSE x \in S : \A y \in S : x <= y
         IN  <<lo>> \o Sorted(S \ {lo})

\* the mapping after both passes
MatchMapping(old_lines, new_lines, context_window, similarity_threshold) ==
    LET st0 == [mapping |-> EmptyDict, used_new |-> {}, unmatched_blocks |-> <<>>]
        st1 == FirstPass(get_opcodes(old_lines, new_lines), 1, st0)
    IN  SecondPass(old_lines, new_lines, 1, context_window, similarity_threshold, st1).mapping

\* "(old_idx + 1, new_idx + 1) for old_idx, new_idx in sorted(mapping.items())"
SortedPairs(mapping) ==
    LET keys == Sorted(DOMAIN mapping)
    IN  [n \in 1..Len(keys) |-> <<keys[n] + 1, mapping[keys[n]] + 1>>]

\* sorted(mapping.items()) returned as it is, without the conversion to 1-based
SortedItems(mapping) ==
    LET keys == Sorted(DOMAIN mapping)
    IN  [n \in 1..Len(keys) |-> <<keys[n], mapping[keys[n]]>>]

\* match_lines that forgets the conversion to 1-based indices
match_lines_zero_based(old_lines, new_lines, context_window, similarity_threshold) ==
    SortedItems(MatchMapping(old_lines, new_lines, context_window, similarity_threshold))

\* the list of (old_idx, new_idx), 1-based, sorted by old index
match_lines(old_lines, new_lines, context_window, similarity_threshold) ==
    SortedPairs(MatchMapping(old_lines, new_lines, context_window, similarity_threshold))

(* ---------------------------------------------------------------------- *)
(* Hybrid diff: get_diff_hybrid of src/src/diff/diff_hybrid.py             *)
(* A file text is a list of one-element lists [line].                      *)
(* ---------------------------------------------------------------------- *)

\* [line[0] for line in file_text]
LinesOf(file_text) == [i \in 1..Len(file_text) |-> file_text[i][1]]

\* "for op in exact_diff": only the 'x:y' tokens change the state
RECURSIVE ParseExact(_, _, _)
ParseExact(exact_diff, n, st) ==
    IF n > Len(exact_diff) THEN st
    ELSE LET op == exact_diff[n]
         IN  IF Contains(op, ":")
             THEN LET old_idx_0based == StrToInt(SplitLeft(op, ":")) - 1
                      new_idx_0based == StrToInt(SplitRight(op, ":")) - 1
                  IN  ParseExact(exact_diff, n + 1,
                          [exact_matches |-> Put(st.exact_matches, old_idx_0based, new_idx_0based),
                           old_matched |-> st.old_matched \cup {old_idx_0based},
                           new_matched |-> st.new_matched \cup {new_idx_0based}])
             ELSE ParseExact(exact_diff, n + 1, st)

\* [i for i in range(n) if i not in matched]
Unmatched(n, matched) == Sorted({i \in 0..(n - 1) : i \notin matched})

\* "for old_1based, new_1based in matcher_results"
RECURSIVE MapBack(_, _, _, _, _)
MapBack(results, n, uold, unew, st) ==
    IF n > Len(results) THEN st
    ELSE LET old_1based == results[n][1]
             new_1based == results[n][2]
         IN  IF old_1based <= Len(uold) /\ new_1based <= Len(unew)
             THEN MapBack(results, n + 1, uold, unew,
                     [similarity_matches |-> Put(st.similarity_matches,
                                                 uold[old_1based], unew[new_1based]),
                      old_matched |-> st.old_matched \cup {uold[old_1based]},
                      new_matched |-> st.new_matched \cup {unew[new_1based]}])
             ELSE MapBack(results, n + 1, uold, unew, st)

\* "for old_idx in range(len(old_lines))"
RECURSIVE EmitOld(_, _, _, _, _)
EmitOld(old_idx, n, exact_matches, similarity_matches, old_matched) ==
    IF old_idx >= n THEN <<>>
    ELSE (IF old_idx \in DOMAIN exact_matches
          THEN <<MatchTok(old_idx + 1, exact_matches[old_idx] + 1)>>
          ELSE IF old_idx \in DOMAIN similarity_matches
          THEN <<SimTok(old_idx + 1, similarity_matches[old_idx] + 1)>>
          ELSE IF old_idx \notin old_matched
          THEN <<DelTok(old_idx + 1)>>
          ELSE <<>>)
         \o EmitOld(old_idx + 1, n, exact_matches, similarity_matches, old_matched)

\* EmitNew that puts each insertion in front of the ones already emitted
RECURSIVE EmitNewPrepend(_, _, _)
EmitNewPrepend(new_idx, n, new_matched) ==
    IF new_idx >= n THEN <<>>
    ELSE EmitNewPrepend(new_idx + 1, n, new_matched)
         \o (IF new_idx \notin new_matched THEN <<InsTok(new_idx + 1)>> ELSE <<>>)

\* "for new_idx in range(len(new_lines))"
RECURSIVE EmitNew(_, _, _)
EmitNew(new_idx, n, new_matched) ==
    IF new_idx >= n THEN <<>>
    ELSE (IF new_idx \notin new_matched THEN <<InsTok(new_idx + 1)>> ELSE <<>>)
         \o EmitNew(new_idx + 1, n, new_matched)

\* step 2: the similarity matches among the lines step 1 left unmatched
\* (uold, unew), added to the matched sets of step 1
SimilarityMatches(old_lines, new_lines, ex, uold, unew, similarity_threshold, use_similarity) ==
    LET st0 == [similarity_matches |-> EmptyDict,
                old_matched |-> ex.old_matched, new_matched |-> ex.new_matched]
    IN  IF use_similarity /\ Len(uold) > 0 /\ Len(unew) > 0
        THEN MapBack(match_lines([i \in 1..Len(uold) |-> old_lines[uold[i] + 1]],
                                 [i \in 1..Len(unew) |-> new_lines[unew[i] + 1]],
                                 DefaultContextWindow, similarity_threshold),
                     1, uold, unew, st0)
        ELSE st0

\* step 3: the tokens, old indices first
BuildResult(old_len, new_len, exact_matches, sim) ==
    EmitOld(0, old_len, exact_matches, sim.similarity_matches, sim.old_matched)
    \o EmitNew(0, new_len, sim.new_matched)

\* steps 2 and 3 from ex, the exact matches parsed in step 1
HybridFrom(old_lines, new_lines, ex, similarity_threshold, use_similarity) ==
    BuildResult(Len(old_lines), Len(new_lines), ex.exact_matches,
                SimilarityMatches(old_lines, new_lines, ex,
                                  Unmatched(Len(old_lines), ex.old_matched),
                                  Unmatched(Len(new_lines), ex.new_matched),
                                  similarity_threshold, use_similarity))

get_diff_hybrid(old_file_text, new_file_text, similarity_threshold, use_similarity) ==
    HybridFrom(LinesOf(old_file_text), LinesOf(new_file_text),
               ParseExact(get_diff(old_file_text, new_file_text), 1,
                          [exact_matches |-> EmptyDict, old_matched |-> {}, new_matched |-> {}]),
               similarity_threshold, use_similarity)

(* ---------------------------------------------------------------------- *)
(* Bug signature: extract_bug_signature of src/src/bug_signature.py        *)
(* A FileVersion is the record [lines, preprocessed].                      *)
(* ---------------------------------------------------------------------- *)

\* default context_window of extract_bug_signature
SignatureContextWindow == 3

\* ClassifyOp that takes 'x:y' for a modification as well
ClassifyOpAnyPair(op, st) ==
    IF EndsWith(op, "-")
    THEN [st EXCEPT !.buggy_line_numbers = Append(@, StrToInt(DropLast(op))),
                    !.deletion = @ + 1]
    ELSE IF Contains(op, "~") \/ Contains(op, ":")
    THEN [st EXCEPT !.buggy_line_numbers =
                        Append(@, StrToInt(SplitLeft(op, IF Contains(op, "~") THEN "~" ELSE ":"))),
                    !.modification = @ + 1]
    ELSE IF EndsWith(op, "+")
    THEN [st EXCEPT !.insertion = @ + 1]
    ELSE st

\* the if / elif chain on one op: the buggy line numbers and the counters
ClassifyOp(op, st) ==
    IF EndsWith(op, "-")
    THEN [st EXCEPT !.buggy_line_numbers = Append(@, StrToInt(DropLast(op))),
                    !.deletion = @ + 1]
    ELSE IF Contains(op, "~")
    THEN [st EXCEPT !.buggy_line_numbers = Append(@, StrToInt(SplitLeft(op, "~"))),
                    !.modification = @ + 1]
    ELSE IF EndsWith(op, "+")
    THEN [st EXCEPT !.insertion = @ + 1]
    ELSE st

\* "for op in diff_ops"
RECURSIVE ParseOps(_, _, _)
ParseOps(diff_ops, n, st) ==
    IF n > Len(diff_ops) THEN st
    ELSE ParseOps(diff_ops, n + 1, ClassifyOp(diff_ops[n], st))

\* FixType that looks at the insertions before anything else
FixTypeInsertionFirst(counts) ==
    IF counts.insertion > 0 THEN "insertion_fix"
    ELSE IF counts.modification > 0 THEN "modification"
    ELSE IF counts.deletion > 0 THEN "deletion"
    ELSE "unknown"

\* "Determine fix type"
FixType(counts) ==
    IF counts.modification > 0 THEN "modification"
    ELSE IF counts.deletion > 0 /\ counts.insertion > 0 THEN "complex"
    ELSE IF counts.deletion > 0 THEN "deletion"
    ELSE IF counts.insertion > 0 THEN "insertion_fix"
    ELSE "unknown"

\* [seq[i] for i in idxs if 0 <= i < limit] (0-based i)
RECURSIVE PickLines(_, _, _)
PickLines(seq, idxs, limit) ==
    IF Len(idxs) = 0 THEN <<>>
    ELSE (IF 0 <= Head(idxs) /\ Head(idxs) < limit THEN <<seq[Head(idxs) + 1]>> ELSE <<>>)
         \o PickLines(seq, Tail(idxs), limit)

\* [lines[i] for i in range(lo, hi) if i < len(lines)]
RangeLines(lines, lo, hi) ==
    LET top == Min2(hi, Len(lines))
    IN  IF lo >= top THEN <<>> ELSE SubSeq(lines, lo + 1, top)

SeqMin(seq) == CHOOSE x \in {seq[i] : i \in 1..Len(seq)} : \A i \in 1..Len(seq) : x <= seq[i]
SeqMax(seq) == CHOOSE x \in {seq[i] : i \in 1..Len(seq)} : \A i \in 1..Len(seq) : x >= seq[i]

\* the signature built from the diff operations, lines 44 to 112
SignatureFrom(file_before_fix, context_window, diff_ops) ==
    LET parsed == ParseOps(diff_ops, 1,
                      [buggy_line_numbers |-> <<>>, deletion |-> 0,
                       modification |-> 0, insertion |-> 0])
        buggy_line_numbers == parsed.buggy_line_numbers
        lines == file_before_fix.lines
        min_line == SeqMin(buggy_line_numbers)
        max_line == SeqMax(buggy_line_numbers)
    IN  [buggy_lines |-> PickLines(lines, buggy_line_numbers, Len(lines)),
         buggy_lines_normalized |->
             PickLines(file_before_fix.preprocessed, buggy_line_numbers, Len(lines)),
         line_numbers |-> buggy_line_numbers,
         context_before |->
             IF Len(buggy_line_numbers) = 0 THEN <<>>
             ELSE RangeLines(lines, Max2(0, min_line - context_window), min_line),
         context_after |->
             IF Len(buggy_line_numbers) = 0 THEN <<>>
             ELSE RangeLines(lines, max_line + 1,
                             Min2(Len(lines), max_line + context_window + 1)),
         fix_type |-> FixType(parsed),
         fix_operations |-> diff_ops]

extract_bug_signature(file_before_fix, file_after_fix, context_window) ==
    SignatureFrom(file_before_fix, context_window,
                  get_diff_hybrid([i \in 1..Len(file_before_fix.preprocessed) |->
                                      <<file_before_fix.preprocessed[i]>>],
                                  [i \in 1..Len(file_after_fix.preprocessed) |->
                                      <<file_after_fix.preprocessed[i]>>],
                                  DefaultThreshold, TRUE))

\* BugSignature.is_empty
is_empty(self) == Len(self.buggy_lines) = 0

(* ---------------------------------------------------------------------- *)
(* Lineage tracer: src/src/bug_tracking/line_tracker.py                    *)
(* A FileVersion here also carries its version; a BugMatch is the record   *)
(* [version, line_numbers, matched_lines, confidence].                     *)
(* ---------------------------------------------------------------------- *)

\* default threshold of find_bug_in_version, find_bug_introduction and
\* trace_single_bug
TraceThreshold == FLit(7, 10)

\* the None that find_bug_in_version returns, as a BugMatch of no version
NoMatch ==
    [version |-> NoIndex, line_numbers |-> <<>>, matched_lines |-> <<>>, confidence |-> F0]

\* lines[lo:hi] for 0 <= lo (0-based, clipped at the end as a slice is)
Slice(lines, lo, hi) == SubSeq(lines, lo + 1, Min2(hi, Len(lines)))

\* sum(scores): the floats added from the left (the int 0 it starts from
\* adds exactly)
RECURSIVE FSum(_, _, _)
FSum(scores, n, acc) ==
    IF n > Len(scores) THEN acc ELSE FSum(scores, n + 1, FAdd(acc, scores[n]))

\* sum(scores) / len(scores)
FMean(scores) == FDiv(FSum(scores, 1, F0), FFromInt(Len(scores)))

\* the score one side of the context adds to scores, if any
ContextScore(sig_context, file_context) ==
    IF Len(sig_context) = 0 \/ Len(file_context) = 0 THEN <<>>
    ELSE <<cosine_similarity(JoinSpace(file_context), JoinSpace(sig_context))>>

\* "sum(scores) / len(scores) if scores else 0.5"
BoostOf(scores) == IF Len(scores) = 0 THEN FLit(5, 10) ELSE FMean(scores)

calculate_context_boost(file_version, start_idx, num_lines, bug_signature) ==
    BoostOf(
        ContextScore(bug_signature.context_before,
                     Slice(file_version.lines,
                           Max2(0, start_idx - Len(bug_signature.context_before)),
                           start_idx))
        \o
        ContextScore(bug_signature.context_after,
                     Slice(file_version.lines, start_idx + num_lines,
                           Min2(Len(file_version.lines),
                                start_idx + num_lines + Len(bug_signature.context_after)))))

\* the score of one (bug_line, window_line) pair
LineScore(bug_line, window_line) ==
    IF IsBlank(bug_line) /\ IsBlank(window_line) THEN F1
    ELSE IF IsBlank(bug_line) \/ IsBlank(window_line) THEN F0
    ELSE normalized_levenshtein(bug_line, window_line)

\* final_score of the window that starts at start_idx
WindowScore(file_version, bug_signature, start_idx) ==
    FAdd(FMul(FLit(8, 10),
              FMean([i \in 1..Len(bug_signature.buggy_lines_normalized) |->
                        LineScore(bug_signature.buggy_lines_normalized[i],
                                  file_version.preprocessed[start_idx + i])])),
         FMul(FLit(2, 10),
              calculate_context_boost(file_version, start_idx,
                                      Len(bug_signature.buggy_lines_normalized),
                                      bug_signature)))

\* "for start_idx in range(len(file_lines) - num_buggy + 1)"; best is
\* best_match, whose confidence is best_score
RECURSIVE FindWindow(_, _, _, _, _)
RECURSIVE FindWindowStep(_, _, _, _, _, _)
FindWindow(file_version, bug_signature, threshold, start_idx, best) ==
    IF start_idx > Len(file_version.preprocessed) - Len(bug_signature.buggy_lines_normalized)
    THEN best
    ELSE FindWindowStep(file_version, bug_signature, threshold, start_idx, best,
                        WindowScore(file_version, bug_signature, start_idx))

\* "if final_score > best_score and final_score >= threshold"
FindWindowStep(file_version, bug_signature, threshold, start_idx, best, final_score) ==
    IF FLt(best.confidence, final_score) /\ FLe(threshold, final_score)
    THEN FindWindow(file_version, bug_signature, threshold, start_idx + 1,
                    [version |-> file_version.version,
                     line_numbers |->
                         [i \in 1..Len(bug_signature.buggy_lines_normalized) |->
                             start_idx + i - 1],
                     matched_lines |->
                         Slice(file_version.lines, start_idx,
                               start_idx + Len(bug_signature.buggy_lines_normalized)),
                     confidence |-> final_score])
    ELSE FindWindow(file_version, bug_signature, threshold, start_idx + 1, best)

find_bug_in_version(file_version, bug_signature, threshold) ==
    IF is_empty(bug_signature) THEN NoMatch
    ELSE IF Len(bug_signature.buggy_lines_normalized) = 0 THEN NoMatch
    ELSE IF Len(file_version.preprocessed) < Len(bug_signature.buggy_lines_normalized)
    THEN NoMatch
    ELSE FindWindow(file_version, bug_signature, threshold, 0, NoMatch)

\* (c - match_quality) ** 2
SquaredDeviation(c, match_quality) ==
    LET d == IF FLt(c, match_quality) THEN FSub(match_quality, c)
             ELSE FSub(c, match_quality)
    IN  FMul(d, d)

\* Variance that divides by len - 1, the sample variance
VarianceOfSample(match_confidences, match_quality) ==
    FDiv(FSum([i \in 1..Len(match_confidences) |->
                  SquaredDeviation(match_confidences[i], match_quality)], 1, F0),
         FFromInt(Len(match_confidences) - 1))

\* "variance = sum((c - match_quality) ** 2 for c in ...) / len(...)"
Variance(match_confidences, match_quality) ==
    FDiv(FSum([i \in 1..Len(match_confidences) |->
                  SquaredDeviation(match_confidences[i], match_quality)], 1, F0),
         FFromInt(Len(match_confidences)))

\* min(1.0, c) for c >= 0
AtMostOne(c) == IF FLt(c, F1) THEN c ELSE F1

\* factors 2 to 4, the weighted combination and the clamp (lines 259-280)
ConfidenceFrom(match_confidences, match_quality, num_buggy, introduction_version) ==
    AtMostOne(
        FAdd(FAdd(FAdd(FMul(FLit(4, 10), match_quality),
                       FMul(FLit(3, 10),
                            IF Len(match_confidences) > 1
                            THEN FSub(F1, Variance(match_confidences, match_quality))
                            ELSE F1)),
                  FMul(FLit(2, 10), AtMostOne(FDiv(FFromInt(num_buggy), FFromInt(5))))),
             FMul(FLit(1, 10),
                  IF introduction_version # NoIndex THEN F1 ELSE FLit(5, 10))))

\* matches holds the BugMatch values of the dict in insertion order;
\* introduction_version is NoIndex for None
calculate_trace_confidence(bug_signature, matches, introduction_version, fix_version) ==
    IF Len(matches) = 0 THEN F0
    ELSE ConfidenceFrom([i \in 1..Len(matches) |-> matches[i].confidence],
                        FMean([i \in 1..Len(matches) |-> matches[i].confidence]),
                        Len(bug_signature.buggy_lines), introduction_version)

(* ---------------------------------------------------------------------- *)
(* The calls that are checked.  call holds the function called and its     *)
(* arguments, pc is "call" before the function has run and "return"        *)
(* after, ret is the value returned.                                       *)
(* ---------------------------------------------------------------------- *)
VARIABLES call, pc, ret, loader, frame, analysis

vars == <<call, pc, ret, loader, frame, analysis>>

\* a CommitInfo of no version, for the None of get_commit_at_version
NoCommit == [version |-> NoIndex, is_bug_fix |-> FALSE]

\* BugSignature([], [], [], [], [], "unknown", [])
UnknownSignature ==
    [buggy_lines |-> <<>>, buggy_lines_normalized |-> <<>>, line_numbers |-> <<>>,
     context_before |-> <<>>, context_after |-> <<>>, fix_type |-> "unknown",
     fix_operations |-> <<>>]

\* the locals of trace_single_bug and of the find_bug_introduction it calls,
\* before the call; log lists the calls made, <<function, version>>
NoFrame ==
    [bug_fix_version |-> NoIndex, fix_commit |-> NoCommit,
     file_after_fix |-> <<>>, file_before_fix |-> <<>>,
     bug_signature |-> UnknownSignature, v |-> NoIndex, versions_to_search |-> <<>>,
     scanned |-> 0, matches_by_version |-> <<>>, introduction_version |-> NoIndex,
     log |-> <<>>]

\* a FileVersionLoader after __init__: nothing cached; cache is _cache, the
\* FileVersion held for each version number
NewLoader == [cache |-> <<>>]

\* the locals of analyze_file before the call
NoAnalysis == [i |-> 0, lineages |-> <<>>]

\* no BugBacktracker takes part in the calls of the functions above
NoTracer == loader = NewLoader /\ frame = NoFrame /\ analysis = NoAnalysis

\* the lines files are made of: two lines one word apart and an unrelated one
LineABC == <<"a", " ", "b", " ", "c">>
LineABD == <<"a", " ", "b", " ", "d">>
LineX == <<"x">>
SampleLines == {LineABC, LineABD, LineX}

\* the lists of at most n sample lines
LineLists(n) == UNION {[1..k -> SampleLines] : k \in 0..n}

\* [[line] for line in lines]
ForDiff(lines) == [i \in 1..Len(lines) |-> <<lines[i]>>]

\* the file texts of at most n lines
FileTexts(n) == {ForDiff(lines) : lines \in LineLists(n)}

\* the thresholds tried: accept every positive score, the default, accept
\* only a score of at least 1
Thresholds == {F0, DefaultThreshold, F1}

\* a FileVersion of sample lines, which preprocess_line leaves as they are
FileVersions(n) == {[lines |-> lines, preprocessed |-> lines] : lines \in LineLists(n)}

Return(value) ==
    pc' = "return" /\ ret' = value /\ UNCHANGED <<call, loader, frame, analysis>>

\* get_diff(old, new)
InitExact ==
    /\ pc = "call"
    /\ ret = <<>>
    /\ NoTracer
    /\ call \in {[fn |-> "get_diff", old |-> o, new |-> n] :
                    o \in FileTexts(MaxOld), n \in FileTexts(MaxNew)}

GetDiff ==
    /\ pc = "call"
    /\ call.fn = "get_diff"
    /\ Return(get_diff(call.old, call.new))

NextExact == GetDiff

SpecExact == InitExact /\ [][NextExact]_vars

\* get_diff_hybrid(old_file_text, new_file_text, similarity_threshold, use_similarity)
InitHybrid ==
    /\ pc = "call"
    /\ ret = <<>>
    /\ NoTracer
    /\ call \in {[fn |-> "get_diff_hybrid", old_file_text |-> o, new_file_text |-> n,
                  similarity_threshold |-> DefaultThreshold, use_similarity |-> u] :
                    o \in FileTexts(MaxOld), n \in FileTexts(MaxNew), u \in BOOLEAN}

GetDiffHybrid ==
    /\ pc = "call"
    /\ call.fn = "get_diff_hybrid"
    /\ Return(get_diff_hybrid(call.old_file_text, call.new_file_text,
                              call.similarity_threshold, call.use_similarity))

NextHybrid == GetDiffHybrid

SpecHybrid == InitHybrid /\ [][NextHybrid]_vars

\* match_lines(old_lines, new_lines, context_window, similarity_threshold)
InitMatch ==
    /\ pc = "call"
    /\ ret = <<>>
    /\ NoTracer
    /\ call \in {[fn |-> "match_lines", old_lines |-> o, new_lines |-> n,
                  context_window |-> DefaultContextWindow, similarity_threshold |-> t] :
                    o \in LineLists(MaxOld), n \in LineLists(MaxNew), t \in Thresholds}

MatchLines ==
    /\ pc = "call"
    /\ call.fn = "match_lines"
    /\ Return(match_lines(call.old_lines, call.new_lines,
                          call.context_window, call.similarity_threshold))

NextMatch == MatchLines

SpecMatch == InitMatch /\ [][NextMatch]_vars

\* normalized_levenshtein(a, b) and cosine_similarity(text1, text2) on lines
\* and on contexts, which are lines joined by spaces
InitSim ==
    /\ pc = "call"
    /\ ret = <<>>
    /\ NoTracer
    /\ call \in {[fn |-> f, a |-> JoinSpace(o), b |-> JoinSpace(n)] :
                    f \in {"normalized_levenshtein", "cosine_similarity"},
                    o \in LineLists(MaxOld), n \in LineLists(MaxNew)}

NormalizedLevenshtein ==
    /\ pc = "call"
    /\ call.fn = "normalized_levenshtein"
    /\ Return(normalized_levenshtein(call.a, call.b))

CosineSimilarity ==
    /\ pc = "call"
    /\ call.fn = "cosine_similarity"
    /\ Return(cosine_similarity(call.a, call.b))

NextSim == NormalizedLevenshtein \/ CosineSimilarity

SpecSim == InitSim /\ [][NextSim]_vars

\* extract_bug_signature(file_before_fix, file_after_fix)
InitSig ==
    /\ pc = "call"
    /\ ret = <<>>
    /\ NoTracer
    /\ call \in {[fn |-> "extract_bug_signature", file_before_fix |-> o,
                  file_after_fix |-> n, context_window |-> SignatureContextWindow] :
                    o \in FileVersions(MaxOld), n \in FileVersions(MaxNew)}

ExtractBugSignature ==
    /\ pc = "call"
    /\ call.fn = "extract_bug_signature"
    /\ Return(extract_bug_signature(call.file_before_fix, call.file_after_fix,
                                    call.context_window))

NextSig == ExtractBugSignature

SpecSig == InitSig /\ [][NextSig]_vars

(* ---------------------------------------------------------------------- *)
(* BugBacktracker.trace_single_bug of                                      *)
(* src/src/bug_tracking/bug_backtracker.py, a step for each call it makes  *)
(* and for each turn of its loops.  call.files is the files directory: the *)
(* lines of every version that has a file; call.commits is the list of     *)
(* CommitInfo of the CommitHistory.                                        *)
(* ---------------------------------------------------------------------- *)

\* str(e) of the FileVersionNotFound that load_version(v) raises when version
\* v has no file, without the path of the file
VersionNotFound(v) == <<"Version ", v, " not found">>

\* f"Cannot load required versions: {e}"
CannotLoad(v) == <<"Cannot load required versions: ">> \o VersionNotFound(v)

\* the FileVersion that load_version(v) builds from the file of version v
LoadedVersion(files, v) == [version |-> v, lines |-> files[v], preprocessed |-> files[v]]

\* self._cache[version] = file_version
CacheStore(cache, version, file_version) ==
    [v \in DOMAIN cache \cup {version} |-> IF v = version THEN file_version ELSE cache[v]]

\* load_version that reads the file again when the version is cached
LoadVersionReread(cache, files, version, use_cache) ==
    IF version \notin DOMAIN files
    THEN [raised |-> TRUE,
          value |-> [type |-> "FileVersionNotFound", message |-> VersionNotFound(version)],
          cache |-> cache]
    ELSE [raised |-> FALSE, value |-> LoadedVersion(files, version),
          cache |-> IF use_cache
                    THEN CacheStore(cache, version, LoadedVersion(files, version))
                    ELSE cache]

\* FileVersionLoader.load_version(version, use_cache) with _cache and the
\* files directory as they are: the FileVersion returned or the
\* FileVersionNotFound raised, and _cache after the call
load_version(cache, files, version, use_cache) ==
    IF use_cache /\ version \in DOMAIN cache
    THEN [raised |-> FALSE, value |-> cache[version], cache |-> cache]
    ELSE IF version \notin DOMAIN files
    THEN [raised |-> TRUE,
          value |-> [type |-> "FileVersionNotFound", message |-> VersionNotFound(version)],
          cache |-> cache]
    ELSE [raised |-> FALSE, value |-> LoadedVersion(files, version),
          cache |-> IF use_cache
                    THEN CacheStore(cache, version, LoadedVersion(files, version))
                    ELSE cache]

\* CommitHistory.get_commit_at_version
get_commit_at_version(commits, version) ==
    IF \E n \in 1..Len(commits) : commits[n].version = version
    THEN commits[CHOOSE n \in 1..Len(commits) :
                    /\ commits[n].version = version
                    /\ \A m \in 1..(n - 1) : commits[m].version # version]
    ELSE NoCommit

\* the BugLineage of a trace that found nothing: the one of an empty
\* signature (lines 125-135) and the one analyze_file builds (lines 75-85)
FailedLineage(fix_commit, fix_version, signature, error_message) ==
    [fix_commit |-> fix_commit, fix_version |-> fix_version, signature |-> signature,
     introduction_commit |-> NoCommit, introduction_version |-> NoIndex,
     introduction_lines |-> <<>>, versions_with_bug |-> <<>>, confidence |-> F0,
     commits_between |-> 0, trace_complete |-> FALSE, error_message |-> error_message]

\* trace_single_bug returns value / raises exception, to analyze_file when
\* it made the call
TraceReturn(value) ==
    /\ pc' = IF call.fn = "analyze_file" THEN "traced" ELSE "return"
    /\ ret' = value
\* TraceRaise that hands the exception back as if it were the result
TraceRaiseAsResult(exception) ==
    /\ pc' = IF call.fn = "analyze_file" THEN "traced" ELSE "return"
    /\ ret' = exception
TraceRaise(exception) ==
    /\ pc' = IF call.fn = "analyze_file" THEN "caught" ELSE "raise"
    /\ ret' = exception

\* lines 99-118: the fix commit, then load_version(F) and load_version(F - 1)
TraceLoadFixPair ==
    /\ pc = "trace_single_bug"
    /\ LET F == frame.bug_fix_version
           found == get_commit_at_version(call.commits, F)
           fix_commit == IF found = NoCommit
                         THEN [version |-> F, is_bug_fix |-> TRUE] ELSE found
           after == load_version(loader.cache, call.files, F, TRUE)
           before == load_version(after.cache, call.files, F - 1, TRUE)
       IN  IF ~after.raised /\ ~before.raised
           THEN /\ frame' = [frame EXCEPT
                                !.fix_commit = fix_commit,
                                !.file_after_fix = after.value,
                                !.file_before_fix = before.value,
                                !.log = @ \o <<<<"load_version", F>>,
                                               <<"load_version", F - 1>>>>]
                /\ loader' = [loader EXCEPT !.cache = before.cache]
                /\ pc' = "extract_bug_signature"
                /\ UNCHANGED ret
           ELSE /\ frame' = [frame EXCEPT
                                !.fix_commit = fix_commit,
                                !.log = @ \o (IF ~after.raised
                                              THEN <<<<"load_version", F>>,
                                                     <<"load_version", F - 1>>>>
                                              ELSE <<<<"load_version", F>>>>)]
                /\ loader' = [loader EXCEPT !.cache = after.cache]
                /\ TraceRaise([type |-> "TraceIncomplete",
                               message |-> CannotLoad(IF ~after.raised THEN F - 1 ELSE F)])
    /\ UNCHANGED <<call, analysis>>

\* TraceSignature without the test of is_empty: the search is made anyway
TraceSignatureSearched(bug_signature) ==
    /\ frame' = [frame EXCEPT
                    !.bug_signature = bug_signature,
                    !.v = frame.bug_fix_version - 1,
                    !.log = Append(@, <<"extract_bug_signature", frame.bug_fix_version>>)]
    /\ pc' = "load_earlier"
    /\ UNCHANGED ret

\* lines 123-135 with the signature just extracted
TraceSignature(bug_signature) ==
    /\ frame' = [frame EXCEPT
                    !.bug_signature = bug_signature,
                    !.v = frame.bug_fix_version - 1,
                    !.log = Append(@, <<"extract_bug_signature", frame.bug_fix_version>>)]
    /\ IF is_empty(bug_signature)
       THEN TraceReturn(FailedLineage(frame.fix_commit, frame.bug_fix_version,
                                      bug_signature,
                                      "No buggy lines identified in fix diff"))
       ELSE pc' = "load_earlier" /\ UNCHANGED ret

\* lines 120-135
TraceExtractSignature ==
    /\ pc = "extract_bug_signature"
    /\ TraceSignature(extract_bug_signature(frame.file_before_fix, frame.file_after_fix,
                                            SignatureContextWindow))
    /\ UNCHANGED <<call, loader, analysis>>

\* TraceLoadEarlier that goes on to the next version when one is missing
TraceLoadEarlierSkipping ==
    /\ pc = "load_earlier"
    /\ IF frame.v >= 0
       THEN /\ LET loaded == load_version(loader.cache, call.files, frame.v, TRUE)
               IN  /\ frame' = [frame EXCEPT
                                   !.versions_to_search =
                                       IF ~loaded.raised THEN Append(@, loaded.value) ELSE @,
                                   !.v = @ - 1,
                                   !.log = Append(@, <<"load_version", frame.v>>)]
                   /\ loader' = [loader EXCEPT !.cache = loaded.cache]
            /\ UNCHANGED <<pc, ret>>
       ELSE /\ pc' = "find_bug_introduction"
            /\ UNCHANGED <<frame, loader, ret>>
    /\ UNCHANGED <<call, analysis>>

\* lines 137-147: one turn of "for v in range(bug_fix_version - 1, -1, -1)",
\* or the end of the loop and the test that follows it
TraceLoadEarlier ==
    /\ pc = "load_earlier"
    /\ IF frame.v >= 0 /\ ~load_version(loader.cache, call.files, frame.v, TRUE).raised
       THEN /\ LET loaded == load_version(loader.cache, call.files, frame.v, TRUE)
               IN  /\ frame' = [frame EXCEPT
                                   !.versions_to_search = Append(@, loaded.value),
                                   !.v = @ - 1,
                                   !.log = Append(@, <<"load_version", frame.v>>)]
                   /\ loader' = [loader EXCEPT !.cache = loaded.cache]
            /\ UNCHANGED <<pc, ret>>
       ELSE /\ frame' = [frame EXCEPT
                            !.log = IF frame.v >= 0
                                    THEN Append(@, <<"load_version", frame.v>>) ELSE @]
            /\ UNCHANGED loader
            /\ IF Len(frame.versions_to_search) = 0
               THEN TraceRaise([type |-> "TraceIncomplete",
                                message |-> <<"No versions available to search">>])
               ELSE pc' = "find_bug_introduction" /\ UNCHANGED ret
    /\ UNCHANGED <<call, analysis>>

\* OldestWithBug that takes the newest version with a match
NewestWithBug(matches) == SeqMax([i \in 1..Len(matches) |-> matches[i].version])

\* min(matches_by_version.keys())
OldestWithBug(matches) == SeqMin([i \in 1..Len(matches) |-> matches[i].version])

\* ScanVersion without the break: a miss does not end the loop
ScanVersionNoBreak(file_version, match) ==
    /\ frame' = [frame EXCEPT
                    !.matches_by_version = IF match # NoMatch THEN Append(@, match) ELSE @,
                    !.scanned = @ + 1,
                    !.log = Append(@, <<"find_bug_in_version", file_version.version>>)]
    /\ UNCHANGED pc

\* lines 216-225 with the match of the version examined, and lines 228-229
\* when the loop ends there
ScanVersion(file_version, match) ==
    IF match # NoMatch
    THEN /\ frame' = [frame EXCEPT
                         !.matches_by_version = Append(@, match),
                         !.scanned = @ + 1,
                         !.log = Append(@, <<"find_bug_in_version", file_version.version>>)]
         /\ UNCHANGED pc
    ELSE /\ frame' = [frame EXCEPT
                         !.introduction_version =
                             IF Len(frame.matches_by_version) > 0
                             THEN OldestWithBug(frame.matches_by_version) ELSE NoIndex,
                         !.scanned = @ + 1,
                         !.log = Append(@, <<"find_bug_in_version", file_version.version>>)]
         /\ pc' = "finish"

\* find_bug_introduction(versions_to_search, bug_signature, similarity_threshold):
\* one turn of "for file_version in file_versions", or its end and lines
\* 228-231
FindBugIntroduction ==
    /\ pc = "find_bug_introduction"
    /\ IF frame.scanned < Len(frame.versions_to_search)
       THEN ScanVersion(frame.versions_to_search[frame.scanned + 1],
                        find_bug_in_version(frame.versions_to_search[frame.scanned + 1],
                                            frame.bug_signature, TraceThreshold))
       ELSE /\ frame' = [frame EXCEPT
                            !.introduction_version =
                                IF Len(frame.matches_by_version) > 0
                                THEN OldestWithBug(frame.matches_by_version)
                                ELSE NoIndex]
            /\ pc' = "finish"
    /\ UNCHANGED <<call, ret, loader, analysis>>

\* sorted(matches_by_version.values(), key=lambda m: m.version)
SortedByVersion(matches) ==
    LET versions == Sorted({matches[i].version : i \in 1..Len(matches)})
    IN  [n \in 1..Len(versions) |->
            matches[CHOOSE i \in 1..Len(matches) : matches[i].version = versions[n]]]

\* lines 159-165
IntroductionLines(bug_signature, matches, introduction_version) ==
    IF /\ introduction_version # NoIndex
       /\ \E i \in 1..Len(matches) : matches[i].version = introduction_version
    THEN matches[CHOOSE i \in 1..Len(matches) :
                    matches[i].version = introduction_version].line_numbers
    ELSE IF introduction_version = 0 THEN bug_signature.line_numbers
    ELSE <<>>

\* lines 154-200: the BugLineage of a search that was made
TraceFinish ==
    /\ pc = "finish"
    /\ TraceReturn(
           [fix_commit |-> frame.fix_commit,
            fix_version |-> frame.bug_fix_version,
            signature |-> frame.bug_signature,
            introduction_commit |->
                IF frame.introduction_version # NoIndex
                THEN get_commit_at_version(call.commits, frame.introduction_version)
                ELSE NoCommit,
            introduction_version |-> frame.introduction_version,
            introduction_lines |->
                IntroductionLines(frame.bug_signature, frame.matches_by_version,
                                  frame.introduction_version),
            versions_with_bug |-> SortedByVersion(frame.matches_by_version),
            confidence |->
                calculate_trace_confidence(frame.bug_signature, frame.matches_by_version,
                                           frame.introduction_version,
                                           frame.bug_fix_version),
            commits_between |->
                IF frame.introduction_version # NoIndex
                THEN frame.bug_fix_version - frame.introduction_version ELSE 0,
            trace_complete |-> frame.introduction_version # NoIndex,
            error_message |-> "None"])
    /\ UNCHANGED <<call, loader, frame, analysis>>

\* the files a version is made of: a one-line file, the file with its line
\* changed, and each of the two with a second line
TraceContents ==
    {<<LineABC>>, <<LineABD>>, <<LineABC, LineX>>, <<LineABD, LineX>>}

\* the files directories with versions among 0..n, each of one of contents
Directories(n, contents) == UNION {[present -> contents] : present \in SUBSET (0..n)}

\* the commits of versions 1..n, those of bug_fixes being bug fixes
Commits(n, bug_fixes) == [v \in 1..n |-> [version |-> v, is_bug_fix |-> v \in bug_fixes]]

\* trace_single_bug(file_name, MaxVersion) on every directory
InitTrace ==
    /\ pc = "trace_single_bug"
    /\ ret = <<>>
    /\ call \in {[fn |-> "trace_single_bug", files |-> files,
                  commits |-> Commits(MaxVersion, {MaxVersion}),
                  bug_fix_version |-> MaxVersion] :
                    files \in Directories(MaxVersion, TraceContents)}
    /\ loader = NewLoader
    /\ frame = [NoFrame EXCEPT !.bug_fix_version = MaxVersion]
    /\ analysis = NoAnalysis

NextTrace ==
    \/ TraceLoadFixPair
    \/ TraceExtractSignature
    \/ TraceLoadEarlier
    \/ FindBugIntroduction
    \/ TraceFinish

SpecTrace == InitTrace /\ [][NextTrace]_vars

\* files of up to four lines: one whose changed lines are apart, a one-line
\* file and a two-line file
LongContents == {<<LineABC, LineX, LineABD, LineX>>, <<LineABD>>, <<LineABC, LineX>>}

\* the bug fix traced among the long files
LongFix == MaxVersion - 1

\* trace_single_bug(file_name, LongFix) on every directory of long files
InitLong ==
    /\ pc = "trace_single_bug"
    /\ ret = <<>>
    /\ call \in {[fn |-> "trace_single_bug", files |-> files,
                  commits |-> Commits(LongFix, {LongFix}),
                  bug_fix_version |-> LongFix] :
                    files \in Directories(LongFix, LongContents)}
    /\ loader = NewLoader
    /\ frame = [NoFrame EXCEPT !.bug_fix_version = LongFix]
    /\ analysis = NoAnalysis

SpecLong == InitLong /\ [][NextTrace]_vars

(* ---------------------------------------------------------------------- *)
(* find_bug_in_version(file_version, bug_signature, threshold), called on  *)
(* its own                                                                 *)
(* ---------------------------------------------------------------------- *)
\* a signature of the given buggy lines and context
SignatureWith(buggy_lines, context_before, context_after) ==
    [UnknownSignature EXCEPT !.buggy_lines = buggy_lines,
                             !.buggy_lines_normalized = buggy_lines,
                             !.line_numbers = [i \in 1..Len(buggy_lines) |-> i],
                             !.context_before = context_before,
                             !.context_after = context_after,
                             !.fix_type = "modification"]

\* the thresholds tried: accept every positive score, and the default
FindThresholds == {F0, TraceThreshold}

InitFind ==
    /\ pc = "call"
    /\ ret = <<>>
    /\ NoTracer
    /\ call \in {[fn |-> "find_bug_in_version",
                  file_version |-> [version |-> 1, lines |-> lines, preprocessed |-> lines],
                  bug_signature |-> SignatureWith(buggy, before, after),
                  threshold |-> threshold] :
                    lines \in LineLists(MaxNew),
                    buggy \in LineLists(MaxOld) \ {<<>>},
                    before \in LineLists(1), after \in LineLists(1),
                    threshold \in FindThresholds}

FindBugInVersion ==
    /\ pc = "call"
    /\ call.fn = "find_bug_in_version"
    /\ Return(find_bug_in_version(call.file_version, call.bug_signature, call.threshold))

NextFind == FindBugInVersion

SpecFind == InitFind /\ [][NextFind]_vars

(* ---------------------------------------------------------------------- *)
(* calculate_trace_confidence(bug_signature, matches, introduction_version, *)
(* fix_version), called on its own                                         *)
(* ---------------------------------------------------------------------- *)
\* the confidences of the checked matches, in tenths
MatchTenths == {5, 7, 10}

\* the numbers of buggy lines of the checked signatures, below, at and above
\* the 5 lines of a signature of full strength
BuggyLineCounts == {0, 2, 5, 6}

\* a signature of n buggy lines
SignatureOf(n) ==
    [UnknownSignature EXCEPT !.buggy_lines = [i \in 1..n |-> LineX],
                             !.buggy_lines_normalized = [i \in 1..n |-> LineX],
                             !.line_numbers = [i \in 1..n |-> i]]

\* the matches of the versions fix_version - 1, fix_version - 2, ... with
\* the confidences tenths[1] / 10, tenths[2] / 10, ...
MatchesOf(tenths, fix_version) ==
    [i \in 1..Len(tenths) |->
        [version |-> fix_version - i, line_numbers |-> <<0>>,
         matched_lines |-> <<LineX>>, confidence |-> FLit(tenths[i], 10)]]

InitConf ==
    /\ pc = "call"
    /\ ret = <<>>
    /\ NoTracer
    /\ call \in {[fn |-> "calculate_trace_confidence",
                  bug_signature |-> SignatureOf(n),
                  matches |-> MatchesOf(tenths, MaxMatches + 1),
                  introduction_version |-> intro,
                  fix_version |-> MaxMatches + 1] :
                    n \in BuggyLineCounts,
                    tenths \in UNION {[1..k -> MatchTenths] : k \in 0..MaxMatches},
                    intro \in {NoIndex, 1}}

CalculateTraceConfidence ==
    /\ pc = "call"
    /\ call.fn = "calculate_trace_confidence"
    /\ Return(calculate_trace_confidence(call.bug_signature, call.matches,
                                         call.introduction_version, call.fix_version))

NextConf == CalculateTraceConfidence

SpecConf == InitConf /\ [][NextConf]_vars

(* ---------------------------------------------------------------------- *)
(* BugBacktracker.analyze_file of src/src/bug_tracking/bug_backtracker.py, *)
(* which calls trace_single_bug for every bug fix of the file.  analysis   *)
(* holds the locals of analyze_file: the number i of bug fixes taken from  *)
(* bug_fix_commits and the lineages.  The loader of the file is made once  *)
(* and keeps its cache from one trace to the next.                         *)
(* ---------------------------------------------------------------------- *)
\* any(c.is_bug_fix for c in self._commits)
has_bug_fixes(commits) == \E i \in 1..Len(commits) : commits[i].is_bug_fix

\* [c for c in self._commits if c.is_bug_fix]
get_bug_fix_commits(commits) == SelectSeq(commits, LAMBDA c : c.is_bug_fix)

\* lines 50-64: the commit history and the test of has_bug_fixes
AnalyzeFile ==
    /\ pc = "analyze_file"
    /\ IF ~has_bug_fixes(call.commits)
       THEN pc' = "return" /\ ret' = <<>>
       ELSE pc' = "next_fix" /\ UNCHANGED ret
    /\ analysis' = [i |-> 0, lineages |-> <<>>]
    /\ UNCHANGED <<call, loader, frame>>

\* lines 66-72 and 90: the next turn of "for i, fix_commit in
\* enumerate(bug_fix_commits, 1)" calls trace_single_bug; the end of the loop
\* returns the lineages
AnalyzeNextFix ==
    /\ pc = "next_fix"
    /\ IF analysis.i < Len(get_bug_fix_commits(call.commits))
       THEN /\ analysis' = [analysis EXCEPT !.i = @ + 1]
            /\ frame' = [NoFrame EXCEPT !.bug_fix_version =
                             get_bug_fix_commits(call.commits)[analysis.i + 1].version]
            /\ pc' = "trace_single_bug"
            /\ UNCHANGED ret
       ELSE /\ pc' = "return"
            /\ ret' = analysis.lineages
            /\ UNCHANGED <<analysis, frame>>
    /\ UNCHANGED <<call, loader>>

\* line 72: trace_single_bug returned a lineage
AnalyzeAppend ==
    /\ pc = "traced"
    /\ analysis' = [analysis EXCEPT !.lineages = Append(@, ret)]
    /\ pc' = "next_fix"
    /\ UNCHANGED <<call, ret, loader, frame>>

\* AnalyzeCatch without the except clause: the exception leaves analyze_file
AnalyzeCatchNothing ==
    /\ pc = "caught"
    /\ pc' = "raise"
    /\ UNCHANGED <<call, ret, loader, frame, analysis>>

\* lines 73-88: trace_single_bug raised a BugTraceError
AnalyzeCatch ==
    /\ pc = "caught"
    /\ analysis' = [analysis EXCEPT !.lineages =
           Append(@, FailedLineage(get_bug_fix_commits(call.commits)[analysis.i],
                                   get_bug_fix_commits(call.commits)[analysis.i].version,
                                   UnknownSignature, ret.message))]
    /\ pc' = "next_fix"
    /\ UNCHANGED <<call, ret, loader, frame>>

\* the files of the analysed directories: a two-line file and a one-line
\* file, the fix of one by the other leaving a signature that is not empty
AnalyzeContents == {<<LineABC, LineX>>, <<LineABD>>}

\* the sets of bug-fix versions of the analysed histories
BugFixSets(n) == SUBSET {n - 1, n}

\* analyze_file(file_name) on every directory and every set of bug fixes
InitAnalyze ==
    /\ pc = "analyze_file"
    /\ ret = <<>>
    /\ call \in {[fn |-> "analyze_file", files |-> files,
                  commits |-> Commits(MaxVersion, bug_fixes)] :
                    files \in Directories(MaxVersion, AnalyzeContents),
                    bug_fixes \in BugFixSets(MaxVersion)}
    /\ loader = NewLoader
    /\ frame = NoFrame
    /\ analysis = NoAnalysis

NextAnalyze ==
    \/ AnalyzeFile
    \/ AnalyzeNextFix
    \/ TraceLoadFixPair
    \/ TraceExtractSignature
    \/ TraceLoadEarlier
    \/ FindBugIntroduction
    \/ TraceFinish
    \/ AnalyzeAppend
    \/ AnalyzeCatch

SpecAnalyze == InitAnalyze /\ [][NextAnalyze]_vars

(* ---------------------------------------------------------------------- *)
(* The FileVersionLoader of one file of a BugBacktracker, of               *)
(* src/src/bug_tracking/file_version_loader.py: load_version and           *)
(* clear_cache called on it, and trace_single_bug, which loads through it. *)
(* The files of the directory are rewritten between the calls.  call holds *)
(* the call made last and the directory.                                   *)
(* ---------------------------------------------------------------------- *)
\* the versions loaded and the bug fix traced
LoaderVersions == 0..(MaxVersion - 2)
LoaderFix == MaxVersion - 2

\* the files of the directory: a two-line file and a one-line file, the fix
\* of one by the other leaving a signature that is not empty
LoaderContents == {<<LineABC, LineX>>, <<LineABD>>}

\* no call is running
LoaderIdle == pc \in {"new", "return", "raise"}

\* BugBacktracker(desc_file, files_directory) on every directory
InitLoader ==
    /\ pc = "new"
    /\ ret = <<>>
    /\ call \in {[fn |-> "__init__", version |-> NoIndex, use_cache |-> TRUE,
                  files |-> files, commits |-> Commits(LoaderFix, {LoaderFix}),
                  bug_fix_version |-> LoaderFix] :
                    files \in Directories(LoaderFix, LoaderContents)}
    /\ NoTracer

\* version_loader.load_version(version, use_cache)
LoadVersion ==
    /\ LoaderIdle
    /\ \E version \in LoaderVersions, use_cache \in BOOLEAN :
        LET loaded == load_version(loader.cache, call.files, version, use_cache)
        IN  /\ call' = [call EXCEPT !.fn = "load_version", !.version = version,
                                    !.use_cache = use_cache]
            /\ loader' = [loader EXCEPT !.cache = loaded.cache]
            /\ ret' = loaded.value
            /\ pc' = IF loaded.raised THEN "raise" ELSE "return"
    /\ frame' = NoFrame
    /\ UNCHANGED analysis

\* version_loader.clear_cache()
ClearCache ==
    /\ LoaderIdle
    /\ call' = [call EXCEPT !.fn = "clear_cache", !.version = NoIndex, !.use_cache = TRUE]
    /\ loader' = [loader EXCEPT !.cache = <<>>]
    /\ ret' = <<>>
    /\ pc' = "return"
    /\ frame' = NoFrame
    /\ UNCHANGED analysis

\* tracer.trace_single_bug(file_name, bug_fix_version) is called: lines 99-100
TraceSingleBug ==
    /\ LoaderIdle
    /\ call' = [call EXCEPT !.fn = "trace_single_bug", !.version = NoIndex,
                            !.use_cache = TRUE]
    /\ frame' = [NoFrame EXCEPT !.bug_fix_version = call.bug_fix_version]
    /\ ret' = <<>>
    /\ pc' = "trace_single_bug"
    /\ UNCHANGED <<loader, analysis>>

\* the file of a version is written, or removed, between two calls
WriteFile ==
    /\ LoaderIdle
    /\ \E version \in LoaderVersions :
        \/ \E content \in LoaderContents :
            call' = [call EXCEPT !.fn = "write", !.version = version, !.use_cache = TRUE,
                                 !.files = [v \in DOMAIN @ \cup {version} |->
                                               IF v = version THEN content ELSE @[v]]]
        \/ /\ version \in DOMAIN call.files
           /\ call' = [call EXCEPT !.fn = "remove", !.version = version, !.use_cache = TRUE,
                                   !.files = [v \in DOMAIN @ \ {version} |-> @[v]]]
    /\ ret' = <<>>
    /\ pc' = "new"
    /\ frame' = NoFrame
    /\ UNCHANGED <<loader, analysis>>

NextLoader ==
    \/ LoadVersion
    \/ ClearCache
    \/ WriteFile
    \/ TraceSingleBug
    \/ TraceLoadFixPair
    \/ TraceExtractSignature
    \/ TraceLoadEarlier
    \/ FindBugIntroduction
    \/ TraceFinish

SpecLoader == InitLoader /\ [][NextLoader]_vars

(* ---------------------------------------------------------------------- *)
(* LineMapping of src/src/models.py and build_line_mapping of              *)
(* src/src/bug_signature.py.  A dict is the list of its <<key, value>>     *)
(* items in the order of insertion; None is NoIndex.                       *)
(* ---------------------------------------------------------------------- *)
\* key in d
HasKey(d, key) == \E i \in 1..Len(d) : d[i][1] = key

\* d[key]
ItemOf(d, key) == d[CHOOSE i \in 1..Len(d) : d[i][1] = key][2]

\* d[key] = value
SetItem(d, key, value) ==
    IF HasKey(d, key)
    THEN [i \in 1..Len(d) |-> IF d[i][1] = key THEN <<key, value>> ELSE d[i]]
    ELSE Append(d, <<key, value>>)

\* LineMapping(old_version, new_version)
NewLineMapping(old_version, new_version) ==
    [old_version |-> old_version, new_version |-> new_version,
     exact_matches |-> <<>>, similarity_matches |-> <<>>,
     deletions |-> {}, insertions |-> {}]

\* MappingStep that files a match under its old number
MappingStepByOld(mapping, op) ==
    IF Contains(op, ":") /\ ~Contains(op, "~")
    THEN [mapping EXCEPT !.exact_matches =
             SetItem(@, StrToInt(SplitLeft(op, ":")), StrToInt(SplitRight(op, ":")))]
    ELSE IF Contains(op, "~")
    THEN [mapping EXCEPT !.similarity_matches =
             SetItem(@, StrToInt(SplitLeft(op, "~")), StrToInt(SplitRight(op, "~")))]
    ELSE IF EndsWith(op, "-")
    THEN [mapping EXCEPT !.deletions = @ \cup {StrToInt(DropLast(op))}]
    ELSE IF EndsWith(op, "+")
    THEN [mapping EXCEPT !.insertions = @ \cup {StrToInt(DropLast(op))}]
    ELSE mapping

\* the if / elif chain of build_line_mapping on one op
MappingStep(mapping, op) ==
    IF Contains(op, ":") /\ ~Contains(op, "~")
    THEN [mapping EXCEPT !.exact_matches =
             SetItem(@, StrToInt(SplitRight(op, ":")), StrToInt(SplitLeft(op, ":")))]
    ELSE IF Contains(op, "~")
    THEN [mapping EXCEPT !.similarity_matches =
             SetItem(@, StrToInt(SplitRight(op, "~")), StrToInt(SplitLeft(op, "~")))]
    ELSE IF EndsWith(op, "-")
    THEN [mapping EXCEPT !.deletions = @ \cup {StrToInt(DropLast(op))}]
    ELSE IF EndsWith(op, "+")
    THEN [mapping EXCEPT !.insertions = @ \cup {StrToInt(DropLast(op))}]
    ELSE mapping

\* "for op in diff_operations"
RECURSIVE MappingFrom(_, _, _)
MappingFrom(diff_operations, n, mapping) ==
    IF n > Len(diff_operations) THEN mapping
    ELSE MappingFrom(diff_operations, n + 1, MappingStep(mapping, diff_operations[n]))

build_line_mapping(diff_operations, old_version, new_version) ==
    MappingFrom(diff_operations, 1, NewLineMapping(old_version, new_version))

\* LineMapping.get_old_line
get_old_line(mapping, new_line) ==
    IF HasKey(mapping.exact_matches, new_line) THEN ItemOf(mapping.exact_matches, new_line)
    ELSE IF HasKey(mapping.similarity_matches, new_line)
    THEN ItemOf(mapping.similarity_matches, new_line)
    ELSE NoIndex

\* "for new, old in d.items(): if old == old_line: return new", None when
\* the loop ends
KeyOfValue(d, value) ==
    IF \E i \in 1..Len(d) : d[i][2] = value
    THEN d[CHOOSE i \in 1..Len(d) :
               d[i][2] = value /\ \A j \in 1..(i - 1) : d[j][2] # value][1]
    ELSE NoIndex

\* LineMapping.get_new_line
get_new_line(mapping, old_line) ==
    IF old_line \in mapping.deletions THEN NoIndex
    ELSE IF KeyOfValue(mapping.exact_matches, old_line) # NoIndex
    THEN KeyOfValue(mapping.exact_matches, old_line)
    ELSE KeyOfValue(mapping.similarity_matches, old_line)

\* the lists of the elements of S, each once
RECURSIVE Orderings(_)
Orderings(S) ==
    IF S = {} THEN {<<>>}
    ELSE UNION {{<<x>> \o t : t \in Orderings(S \ {x})} : x \in S}

\* the token sets of a diff of old_len lines against new_len lines: every
\* old line deleted or matched, exactly or by similarity, to a new line of
\* its own, and the new lines left over inserted
TokenSets(old_len, new_len) ==
    {{IF fate[x] = 0 THEN DelTok(x)
      ELSE IF exact[x] THEN MatchTok(x, fate[x]) ELSE SimTok(x, fate[x]) : x \in 1..old_len}
     \cup {InsTok(y) : y \in (1..new_len) \ {fate[x] : x \in 1..old_len}} :
        fate \in {f \in [1..old_len -> 0..new_len] :
                     \A x1, x2 \in 1..old_len : (f[x1] = f[x2] /\ f[x1] # 0) => x1 = x2},
        exact \in [1..old_len -> BOOLEAN]}

\* build_line_mapping(diff_operations, 0, 1) on every token list of a diff
\* of at most MaxOld lines against at most MaxNew lines
InitMap ==
    /\ pc = "call"
    /\ ret = <<>>
    /\ NoTracer
    /\ call \in {[fn |-> "build_line_mapping", diff_operations |-> toks,
                  old_version |-> 0, new_version |-> 1, line |-> NoIndex] :
                    toks \in UNION {Orderings(S) :
                        S \in UNION {TokenSets(old_len, new_len) :
                                        old_len \in 0..MaxOld, new_len \in 0..MaxNew}}}

BuildLineMapping ==
    /\ pc = "call"
    /\ call.fn = "build_line_mapping"
    /\ Return(build_line_mapping(call.diff_operations, call.old_version, call.new_version))

\* mapping.get_old_line(new_line) on the mapping just built
GetOldLine ==
    /\ pc = "return"
    /\ call.fn = "build_line_mapping"
    /\ \E new_line \in 1..MaxNew :
        /\ call' = [call EXCEPT !.fn = "get_old_line", !.line = new_line]
        /\ ret' = [mapping |-> ret, line |-> get_old_line(ret, new_line)]
    /\ UNCHANGED <<pc, loader, frame, analysis>>

\* mapping.get_new_line(old_line) on the mapping just built
GetNewLine ==
    /\ pc = "return"
    /\ call.fn = "build_line_mapping"
    /\ \E old_line \in 1..MaxOld :
        /\ call' = [call EXCEPT !.fn = "get_new_line", !.line = old_line]
        /\ ret' = [mapping |-> ret, line |-> get_new_line(ret, old_line)]
    /\ UNCHANGED <<pc, loader, frame, analysis>>

NextMap == BuildLineMapping \/ GetOldLine \/ GetNewLine

SpecMap == InitMap /\ [][NextMap]_vars

(* ---------------------------------------------------------------------- *)
(* Reading a token list, for the properties below                          *)
(* ---------------------------------------------------------------------- *)
TokKind(tok) ==
    IF EndsWith(tok, "-") THEN "deletion"
    ELSE IF EndsWith(tok, "+") THEN "insertion"
    ELSE IF Contains(tok, "~") THEN "similarity"
    ELSE IF Contains(tok, ":") THEN "exact"
    ELSE "other"

OldKinds == {"exact", "similarity", "deletion"}
NewKinds == {"exact", "similarity", "insertion"}

\* the old index of an exact, similarity or deletion token
TokOld(tok) ==
    IF TokKind(tok) = "deletion" THEN StrToInt(DropLast(tok))
    ELSE IF TokKind(tok) = "similarity" THEN StrToInt(SplitLeft(tok, "~"))
    ELSE StrToInt(SplitLeft(tok, ":"))

\* the new index of an exact, similarity or insertion token
TokNew(tok) ==
    IF TokKind(tok) = "insertion" THEN StrToInt(DropLast(tok))
    ELSE IF TokKind(tok) = "similarity" THEN StrToInt(SplitRight(tok, "~"))
    ELSE StrToInt(SplitRight(tok, ":"))

\* the positions of toks that carry old index x / new index y
OldUses(toks, x) ==
    {n \in 1..Len(toks) : TokKind(toks[n]) \in OldKinds /\ TokOld(toks[n]) = x}
NewUses(toks, y) ==
    {n \in 1..Len(toks) : TokKind(toks[n]) \in NewKinds /\ TokNew(toks[n]) = y}

\* every old index 1..old_len and every new index 1..new_len is carried by
\* exactly one token, and no token carries any other index
Partition(old_len, new_len, toks) ==
    /\ \A n \in 1..Len(toks) :
        /\ TokKind(toks[n]) # "other"
        /\ TokKind(toks[n]) \in OldKinds => TokOld(toks[n]) \in 1..old_len
        /\ TokKind(toks[n]) \in NewKinds => TokNew(toks[n]) \in 1..new_len
    /\ \A x \in 1..old_len : Cardinality(OldUses(toks, x)) = 1
    /\ \A y \in 1..new_len : Cardinality(NewUses(toks, y)) = 1

HybridReturned == pc = "return" /\ call.fn = "get_diff_hybrid"
ExactReturned == pc = "return" /\ call.fn = "get_diff"

\* C1: the tokens get_diff_hybrid returns carry every old index 1..len(old)
\* exactly once among exact matches, similarity matches and deletions, and
\* every new index 1..len(new) exactly once among exact matches, similarity
\* matches and insertions; no index is missing, out of range or used twice.
C1_PartitionInvariant ==
    HybridReturned =>
        Partition(Len(call.old_file_text), Len(call.new_file_text), ret)

\* C2: every token 'x:y' that get_diff_hybrid returns names 1-based lines
\* that are textually identical: old[x-1] == new[y-1].
C2_ExactMatchSound ==
    HybridReturned =>
        \A n \in 1..Len(ret) :
            TokKind(ret[n]) = "exact" =>
                /\ TokOld(ret[n]) \in 1..Len(call.old_file_text)
                /\ TokNew(ret[n]) \in 1..Len(call.new_file_text)
                /\ call.old_file_text[TokOld(ret[n])] = call.new_file_text[TokNew(ret[n])]

\* C3: get_diff_hybrid(old, old) is exactly the tokens 'i:i' for
\* i = 1..len(old), in that order.
C3_Idempotent ==
    (HybridReturned /\ call.old_file_text = call.new_file_text) =>
        ret = [i \in 1..Len(call.old_file_text) |-> MatchTok(i, i)]

\* length of the longest common subsequence of a[1..i] and b[1..j], by the
\* textbook recurrence
RECURSIVE LCS(_, _, _, _)
LCS(a, b, i, j) ==
    IF i = 0 \/ j = 0 THEN 0
    ELSE IF a[i] = b[j] THEN 1 + LCS(a, b, i - 1, j - 1)
    ELSE Max2(LCS(a, b, i - 1, j), LCS(a, b, i, j - 1))

EditDistance(old, new) == Len(old) + Len(new) - 2 * LCS(old, new, Len(old), Len(new))

\* number of deletion and insertion tokens
EditCount(toks) ==
    Cardinality({n \in 1..Len(toks) : TokKind(toks[n]) \in {"deletion", "insertion"}})

\* the D at which the forward pass of get_diff returns
ReturnD(old, new) == Len(ForwardPass(old, new, Put(EmptyDict, 1, 0), 0, <<>>).trace) - 1

\* C4: get_diff returns at the first D at which a diagonal reaches the end of
\* both files, which is the insert/delete edit distance
\* len(old) + len(new) - 2 * LCS(old, new), and its result holds exactly that
\* many deletion and insertion tokens.
C4_MyersMinimal ==
    ExactReturned =>
        /\ ReturnD(call.old, call.new) = EditDistance(call.old, call.new)
        /\ EditCount(ret) = EditDistance(call.old, call.new)

\* get_diff has returned a script with a match and at least two edits
C4_Witness ==
    /\ ExactReturned
    /\ LCS(call.old, call.new, Len(call.old), Len(call.new)) >= 1
    /\ EditCount(ret) >= 2

\* C5: get_diff returns only exact matches, deletions and insertions with
\* 1-based indices; every old index and every new index occurs exactly once;
\* each match pairs equal lines; the matches increase strictly in both
\* indices in the order they are emitted.
C5_ValidEditScript ==
    ExactReturned =>
        /\ \A n \in 1..Len(ret) : TokKind(ret[n]) \in {"exact", "deletion", "insertion"}
        /\ Partition(Len(call.old), Len(call.new), ret)
        /\ \A n \in 1..Len(ret) :
            TokKind(ret[n]) = "exact" => call.old[TokOld(ret[n])] = call.new[TokNew(ret[n])]
        /\ \A n, m \in 1..Len(ret) :
            (n < m /\ TokKind(ret[n]) = "exact" /\ TokKind(ret[m]) = "exact") =>
                TokOld(ret[n]) < TokOld(ret[m]) /\ TokNew(ret[n]) < TokNew(ret[m])

\* C6: in the result of get_diff_hybrid the tokens with an old index come
\* first, in strictly ascending order of old index, and the insertions
\* follow, in strictly ascending order of new index.
C6_WireOrdering ==
    HybridReturned =>
        \E s \in 0..Len(ret) :
            /\ \A n \in 1..s : TokKind(ret[n]) \in OldKinds
            /\ \A n \in (s + 1)..Len(ret) : TokKind(ret[n]) = "insertion"
            /\ \A n \in 1..(s - 1) : TokOld(ret[n]) < TokOld(ret[n + 1])
            /\ \A n \in (s + 1)..(Len(ret) - 1) : TokNew(ret[n]) < TokNew(ret[n + 1])

\* get_diff_hybrid has returned two old-indexed tokens and two insertions
C6_Witness ==
    /\ HybridReturned
    /\ Cardinality({n \in 1..Len(ret) : TokKind(ret[n]) \in OldKinds}) >= 2
    /\ Cardinality({n \in 1..Len(ret) : TokKind(ret[n]) = "insertion"}) >= 2

\* old with line inserted so that it becomes line p
InsertAt(old, p, line) == SubSeq(old, 1, p - 1) \o <<line>> \o SubSeq(old, p, Len(old))

\* the positions p at which new is old with one extra line
InsertPositions(old, new) ==
    {p \in 1..Len(new) : Len(new) = Len(old) + 1 /\ new = InsertAt(old, p, new[p])}

\* C7: when new is old with one extra line at position p, get_diff_hybrid
\* returns an exact match for every old line (i:i before p, i:(i+1) from p
\* on), the one insertion 'p+', and nothing else.
C7_SingleInsertion ==
    (HybridReturned /\ InsertPositions(call.old_file_text, call.new_file_text) # {}) =>
        \E p \in InsertPositions(call.old_file_text, call.new_file_text) :
            /\ Len(ret) = Len(call.new_file_text)
            /\ {ret[n] : n \in 1..Len(ret)} =
                   {MatchTok(i, IF i < p THEN i ELSE i + 1) : i \in 1..Len(call.old_file_text)}
                   \cup {InsTok(p)}

MatchReturned == pc = "return" /\ call.fn = "match_lines"

\* C8: for every old_lines, new_lines and threshold, match_lines returns
\* pairs (oldIdx, newIdx) with 1 <= oldIdx <= len(old_lines) and
\* 1 <= newIdx <= len(new_lines), no old index and no new index twice, in
\* strictly ascending order of old index.
C8_MatchShape ==
    MatchReturned =>
        /\ \A n \in 1..Len(ret) :
            /\ ret[n][1] \in 1..Len(call.old_lines)
            /\ ret[n][2] \in 1..Len(call.new_lines)
        /\ \A n, m \in 1..Len(ret) : n # m => ret[n][2] # ret[m][2]
        /\ \A n \in 1..(Len(ret) - 1) : ret[n][1] < ret[n + 1][1]

\* match_lines has returned two pairs, one of them of lines that differ
C8_Witness ==
    /\ MatchReturned
    /\ Len(ret) = 2
    /\ \E n \in 1..Len(ret) : call.old_lines[ret[n][1]] # call.new_lines[ret[n][2]]

SimReturned ==
    pc = "return" /\ call.fn \in {"normalized_levenshtein", "cosine_similarity"}

\* C9: normalized_levenshtein(a, b) and cosine_similarity(a, b) lie in
\* [0, 1]; both are 1.0 when both arguments are empty and 0.0 when exactly
\* one is.
C9_SimilarityBounds ==
    SimReturned =>
        /\ FLe(F0, ret) /\ FLe(ret, F1)
        /\ (Len(call.a) = 0 /\ Len(call.b) = 0) => FCmp(ret, F1) = 0
        /\ ((Len(call.a) = 0) # (Len(call.b) = 0)) => FCmp(ret, F0) = 0

SigReturned == pc = "return" /\ call.fn = "extract_bug_signature"

\* the tokens of toks that are deletions or similarity matches, in order
ChangedTokens(toks) ==
    SelectSeq(toks, LAMBDA tok : TokKind(tok) \in {"deletion", "similarity"})

\* C10: the line_numbers of extract_bug_signature(before, after) are the old
\* indices of the deletion and similarity-match tokens of the hybrid diff of
\* the two normalized line lists, one for each such token; exact matches and
\* insertions contribute none.
C10_BuggyLines ==
    SigReturned =>
        LET toks == get_diff_hybrid(ForDiff(call.file_before_fix.preprocessed),
                                    ForDiff(call.file_after_fix.preprocessed),
                                    DefaultThreshold, TRUE)
        IN  ret.line_numbers =
                [n \in 1..Len(ChangedTokens(toks)) |-> TokOld(ChangedTokens(toks)[n])]

\* a signature has been extracted from a diff that holds an exact match, a
\* similarity match and an insertion
C10_Witness ==
    /\ SigReturned
    /\ \A kind \in {"exact", "similarity", "insertion"} :
        \E n \in 1..Len(ret.fix_operations) : TokKind(ret.fix_operations[n]) = kind
    /\ Len(ret.line_numbers) = 1

\* the kinds of token that occur in toks
KindsIn(toks) == {TokKind(toks[n]) : n \in 1..Len(toks)}

\* C11: the fix_type of extract_bug_signature is "modification" when the
\* diff holds a similarity match; otherwise "complex" when it holds both a
\* deletion and an insertion; otherwise "deletion" when it holds a deletion;
\* otherwise "insertion_fix" when it holds an insertion; otherwise "unknown".
C11_FixTypePriority ==
    SigReturned =>
        LET kinds == KindsIn(ret.fix_operations)
        IN  ret.fix_type =
                IF "similarity" \in kinds THEN "modification"
                ELSE IF {"deletion", "insertion"} \subseteq kinds THEN "complex"
                ELSE IF "deletion" \in kinds THEN "deletion"
                ELSE IF "insertion" \in kinds THEN "insertion_fix"
                ELSE "unknown"

\* a signature has been extracted from a diff that holds a similarity match
\* next to an insertion, so that the priority decides the fix type
C11_Witness ==
    /\ SigReturned
    /\ {"similarity", "insertion"} \subseteq KindsIn(ret.fix_operations)
    /\ ret.fix_type = "modification"

\* C12: the signature extract_bug_signature returns is empty (is_empty())
\* if and only if its line_numbers list is empty, that is the diff held no
\* deletion and no similarity match; identical files give an empty signature.
C12_EmptyIffNoBuggyIndex ==
    SigReturned =>
        /\ is_empty(ret) <=> (Len(ret.line_numbers) = 0)
        /\ is_empty(ret) <=>
               (KindsIn(ret.fix_operations) \cap {"deletion", "similarity"} = {})
        /\ call.file_before_fix = call.file_after_fix => is_empty(ret)

\* a is b with lines left out: a subsequence of b
RECURSIVE IsSubsequence(_, _)
IsSubsequence(a, b) ==
    IF Len(a) = 0 THEN TRUE
    ELSE IF Len(b) = 0 THEN FALSE
    ELSE IF Head(a) = Head(b) THEN IsSubsequence(Tail(a), Tail(b))
    ELSE IsSubsequence(a, Tail(b))

\* C13: when after is before with one or more lines inserted (every line of
\* before kept, in order), the signature of extract_bug_signature(before,
\* after) is empty and its fix_type is "insertion_fix".
C13_PureInsertion ==
    (/\ SigReturned
     /\ Len(call.file_after_fix.lines) > Len(call.file_before_fix.lines)
     /\ IsSubsequence(call.file_before_fix.lines, call.file_after_fix.lines)) =>
        /\ is_empty(ret)
        /\ ret.fix_type = "insertion_fix"

\* the versions for which the running trace called op, in the order of the calls
Called(op) ==
    LET calls == SelectSeq(frame.log, LAMBDA entry : entry[1] = op)
    IN  [i \in 1..Len(calls) |-> calls[i][2]]

\* the versions of a list of FileVersion or of BugMatch
VersionsOf(list) == [i \in 1..Len(list) |-> list[i].version]

\* hi, hi - 1, ..., lo
DownFrom(hi, lo) == [i \in 1..(hi - lo + 1) |-> hi - i + 1]

TraceCalled == call.fn = "trace_single_bug"
TraceEnded == TraceCalled /\ pc \in {"return", "raise"}

\* C14: find_bug_introduction examines the versions it is given in list
\* order, newest first, and stops at the first version without an accepted
\* match: the versions examined are a prefix of the list, all of them but
\* possibly the last matched, and nothing older than a miss is examined or
\* among the matches.  The introduction version is the oldest version that
\* matched before the miss, the oldest loaded version when all matched, and
\* None when the newest version misses.
C14_BackwardScan ==
    TraceCalled =>
        LET searched == VersionsOf(frame.versions_to_search)
            scored == Called("find_bug_in_version")
            matched == VersionsOf(frame.matches_by_version)
        IN  /\ \A i \in 1..(Len(searched) - 1) : searched[i] > searched[i + 1]
            /\ Len(scored) <= Len(searched)
            /\ scored = SubSeq(searched, 1, Len(scored))
            /\ Len(matched) <= Len(scored)
            /\ Len(scored) <= Len(matched) + 1
            /\ matched = SubSeq(scored, 1, Len(matched))
            /\ pc = "finish" =>
                /\ \A i \in 1..Len(scored) :
                      (find_bug_in_version(frame.versions_to_search[i],
                                           frame.bug_signature, TraceThreshold) # NoMatch)
                          <=> i <= Len(matched)
                /\ Len(scored) = Len(matched) => Len(scored) = Len(searched)
                /\ frame.introduction_version =
                       IF Len(matched) = 0 THEN NoIndex ELSE matched[Len(matched)]

\* the scan has ended at a miss that follows a match, with an older version
\* left that was loaded and not examined
C14_Witness ==
    /\ TraceCalled
    /\ pc = "finish"
    /\ Len(frame.matches_by_version) >= 1
    /\ Len(Called("find_bug_in_version")) = Len(frame.matches_by_version) + 1
    /\ Len(frame.versions_to_search) > Len(Called("find_bug_in_version"))

\* the positions at which the files a and b, of the same length, differ
Differing(a, b) == {i \in 1..Len(a) : a[i] # b[i]}

\* C15: when the versions 1..F exist and version 0 does not, one line is the
\* same in the versions 1..F-1 and becomes a similar line in the fix version
\* F, and no other line changes, trace_single_bug(F) returns
\* introduction_version 1, a confidence above 0.5 and trace_complete true.
C15_LineageScenario ==
    (/\ TraceEnded
     /\ DOMAIN call.files = 1..call.bug_fix_version
     /\ \A v \in 1..(call.bug_fix_version - 1) : call.files[v] = call.files[1]
     /\ Len(call.files[call.bug_fix_version]) = Len(call.files[1])
     /\ \E i \in 1..Len(call.files[1]) :
           /\ Differing(call.files[1], call.files[call.bug_fix_version]) = {i}
           /\ {call.files[1][i], call.files[call.bug_fix_version][i]} = {LineABC, LineABD}) =>
        /\ pc = "return"
        /\ ret.introduction_version = 1
        /\ FLt(FLit(5, 10), ret.confidence)
        /\ ret.trace_complete

\* C16: when the signature extracted from (F-1, F) is empty, trace_single_bug
\* returns, and does not raise, a BugLineage with introduction version -1,
\* confidence 0.0, trace_complete false, the message that no buggy lines
\* were identified and no versions_with_bug; it loads no version other than
\* F and F-1 and scores none.
C16_EmptySignatureTerminal ==
    (/\ TraceEnded
     /\ Len(Called("extract_bug_signature")) = 1
     /\ is_empty(frame.bug_signature)) =>
        /\ pc = "return"
        /\ ret.introduction_version = -1
        /\ ret.confidence = F0
        /\ ret.trace_complete = FALSE
        /\ ret.error_message = "No buggy lines identified in fix diff"
        /\ ret.versions_with_bug = <<>>
        /\ ret.signature = frame.bug_signature
        /\ Called("load_version") = <<call.bug_fix_version, call.bug_fix_version - 1>>
        /\ Called("find_bug_in_version") = <<>>

\* a trace has ended on an empty signature although an earlier version exists
C16_Witness ==
    /\ TraceEnded
    /\ Len(Called("extract_bug_signature")) = 1
    /\ is_empty(frame.bug_signature)
    /\ (call.bug_fix_version - 2) \in DOMAIN call.files

LowestLoadable(files, top) ==
    CHOOSE m \in 0..top :
        /\ \A v \in m..top : v \in DOMAIN files
        /\ m > 0 => (m - 1) \notin DOMAIN files

\* C18: with F and F-1 loadable and a non-empty signature, trace_single_bug
\* searches exactly the versions F-1, F-2, ..., m in that order, m being the
\* smallest version with every version of m..F-1 loadable; the first missing
\* version ends the loading without an exception, and no version below it
\* is loaded or searched.
C18_TruncatedHistory ==
    (/\ TraceCalled
     /\ pc \in {"find_bug_introduction", "finish", "return", "raise"}
     /\ {call.bug_fix_version, call.bug_fix_version - 1} \subseteq DOMAIN call.files
     /\ ~is_empty(frame.bug_signature)) =>
        LET m == LowestLoadable(call.files, call.bug_fix_version - 1)
        IN  /\ pc # "raise"
            /\ VersionsOf(frame.versions_to_search) = DownFrom(call.bug_fix_version - 1, m)
            /\ Called("load_version") =
                   <<call.bug_fix_version, call.bug_fix_version - 1>>
                   \o DownFrom(call.bug_fix_version - 1, IF m > 0 THEN m - 1 ELSE 0)
            /\ \A i \in 1..Len(Called("find_bug_in_version")) :
                   Called("find_bug_in_version")[i] >= m

\* a search has been made of a history cut short by a missing version below
\* which a version exists
C18_Witness ==
    /\ TraceEnded
    /\ pc = "return"
    /\ ~is_empty(frame.bug_signature)
    /\ \E gap \in 1..(call.bug_fix_version - 2) :
          /\ gap \notin DOMAIN call.files
          /\ (gap - 1) \in DOMAIN call.files
          /\ \A v \in (gap + 1)..call.bug_fix_version : v \in DOMAIN call.files

\* the confidence of the i-th match of the call, in tenths
TenthsOf(i) == CHOOSE t \in MatchTenths : FLit(t, 10) = call.matches[i].confidence

\* 1000 * k^3 times the value of
\*   0.4 * mean + 0.3 * (1 - population variance) + 0.2 * min(1, n / 5)
\*   + 0.1 * (1 or 0.5)
\* in exact arithmetic, for the k >= 1 matches and the n buggy lines of the
\* call: the mean is S / (10 k) and the variance is
\* sum((k t - S)^2) / (100 k^3), S being the sum of the tenths t
ExactConfidenceScaled ==
    LET k == Len(call.matches)
        t == [i \in 1..k |-> TenthsOf(i)]
        S == SumOver(t, 1..k)
        n == Len(call.bug_signature.buggy_lines)
    IN  40 * S * k * k
        + 300 * k * k * k
        - 3 * SumOver([i \in 1..k |-> (k * t[i] - S) * (k * t[i] - S)], 1..k)
        + 40 * k * k * k * (IF n < 5 THEN n ELSE 5)
        + (IF call.introduction_version # NoIndex THEN 100 ELSE 50) * k * k * k

\* |value - scaled / scale| <= 2^-40, for a float value in (0, 1]
NearExact(value, scaled, scale) ==
    LET lhs == BigMul(value.m, BigFromNat(scale))
        rhs == BigShl(BigFromNat(scaled), 0 - value.e)
        diff == IF BigCmp(lhs, rhs) >= 0 THEN BigSub(lhs, rhs) ELSE BigSub(rhs, lhs)
    IN  /\ value.e <= 0 - 40
        /\ BigCmp(diff, BigShl(BigFromNat(scale), 0 - value.e - 40)) <= 0

ConfidenceReturned == call.fn = "calculate_trace_confidence" /\ pc = "return"

AnalyzeCalled == call.fn = "analyze_file"

\* the bug-fix commits of the analysed file, in commit order
BugFixesOf(commits) ==
    LET at == Sorted({i \in 1..Len(commits) : commits[i].is_bug_fix})
    IN  [n \in 1..Len(at) |-> commits[at[n]]]

\* the trace of the fix version F of the analysed file fails for want of
\* version F or version F - 1
MissingPair(F) == {F, F - 1} \ DOMAIN call.files # {}

\* C20: analyze_file returns one BugLineage for each bug-fix commit of the
\* file, in commit order; no exception of a trace leaves analyze_file: a
\* trace that fails, as it does when version F or F-1 is missing, gives a
\* BugLineage with trace_complete false, confidence 0.0 and an error
\* message, and the bug fixes after it are traced all the same.
C20_LineagePerBugFix ==
    AnalyzeCalled =>
        /\ pc # "raise"
        /\ pc = "return" =>
               LET fixes == BugFixesOf(call.commits)
               IN  /\ Len(ret) = Len(fixes)
                   /\ \A n \in 1..Len(fixes) :
                         /\ ret[n].fix_commit = fixes[n]
                         /\ ret[n].fix_version = fixes[n].version
                         /\ MissingPair(fixes[n].version) =>
                                /\ ret[n].trace_complete = FALSE
                                /\ ret[n].confidence = F0
                                /\ ret[n].error_message[1] = "Cannot load required versions: "
                                /\ ret[n].error_message[3] \notin DOMAIN call.files
                         /\ ~MissingPair(fixes[n].version) =>
                                ret[n].signature =
                                    extract_bug_signature(
                                        LoadedVersion(call.files, fixes[n].version - 1),
                                        LoadedVersion(call.files, fixes[n].version),
                                        SignatureContextWindow)

\* analyze_file has returned the lineage of a trace that failed followed by
\* the lineage of a trace that found the introduction
C20_Witness ==
    /\ AnalyzeCalled
    /\ pc = "return"
    /\ Len(ret) >= 2
    /\ MissingPair(ret[1].fix_version)
    /\ ret[1].trace_complete = FALSE
    /\ ret[2].trace_complete = TRUE

\* the position the path of toks has reached after its first n tokens: a
\* match advances x and y, a deletion x, an insertion y
PathX(toks, n) ==
    Cardinality({i \in 1..n : TokKind(toks[i]) \in {"exact", "deletion"}})
PathY(toks, n) ==
    Cardinality({i \in 1..n : TokKind(toks[i]) \in {"exact", "insertion"}})

\* the place in toks of the D-th deletion or insertion, and Len(toks) + 1
\* when there are fewer
EditAt(toks, D) ==
    IF D > EditCount(toks) THEN Len(toks) + 1
    ELSE CHOOSE i \in 1..Len(toks) :
             /\ TokKind(toks[i]) \in {"deletion", "insertion"}
             /\ EditCount(SubSeq(toks, 1, i)) = D

\* the trace of the forward pass of the call
TraceOf(old, new) == ForwardPass(old, new, Put(EmptyDict, 1, 0), 0, <<>>).trace

\* step D of the backward walk as the returned tokens show it: the walk
\* stands at the end of the snake that follows the D-th edit, on a diagonal
\* the forward pass recorded at distance D with that x; the edit is the one
\* the forward pass made to enter the diagonal; and the walk goes back to
\* the position recorded for the neighbour at distance D - 1
StepAgrees(toks, trace, D) ==
    LET at == EditAt(toks, D)
        x == PathX(toks, EditAt(toks, D + 1) - 1)
        y == PathY(toks, EditAt(toks, D + 1) - 1)
        x_prev == PathX(toks, at - 1)
        y_prev == PathY(toks, at - 1)
        k == x - y
        ins == TokKind(toks[at]) = "insertion"
        k_prev == IF ins THEN k + 1 ELSE k - 1
    IN  /\ k \in DOMAIN trace[D + 1]
        /\ trace[D + 1][k] = x
        /\ ins <=> ForwardIsInsert(trace[D], D, k)
        /\ k_prev \in DOMAIN trace[D]
        /\ trace[D][k_prev] = x_prev
        /\ x_prev - k_prev = y_prev
        /\ x_prev >= 0 /\ y_prev >= 0

\* C21: at every step D > 0 of reconstruct_from_trace the predecessor
\* diagonal chosen is the neighbour from which the forward pass of get_diff
\* entered diagonal k at distance D, for all the different defaults of
\* absent frontier entries; the backward walk visits only positions the
\* trace records, keeps x and y at 0 or above and ends at (0, 0).
C21_TieBreakReproduced ==
    ExactReturned =>
        LET trace == TraceOf(call.old, call.new)
        IN  /\ EditCount(ret) = Len(trace) - 1
            /\ \A D \in 1..EditCount(ret) : StepAgrees(ret, trace, D)
            /\ PathX(ret, EditAt(ret, 1) - 1) = PathY(ret, EditAt(ret, 1) - 1)
            /\ PathX(ret, EditAt(ret, 1) - 1) = trace[1][0]
            /\ PathX(ret, Len(ret)) = Len(call.old)
            /\ PathY(ret, Len(ret)) = Len(call.new)

\* get_diff has returned after a step whose diagonal is neither -D nor D and
\* whose two neighbours had gone equally far
C21_Witness ==
    /\ ExactReturned
    /\ \E D \in 2..EditCount(ret) :
          LET k == PathX(ret, EditAt(ret, D + 1) - 1) - PathY(ret, EditAt(ret, D + 1) - 1)
              V == TraceOf(call.old, call.new)[D]
          IN  /\ k # D /\ k # 0 - D
              /\ Get(V, k - 1, -1) = Get(V, k + 1, -1)

\* the (old, new) index pairs of the tokens of one kind, each index raised
\* by shift
PairsOf(toks, kind, shift) ==
    {<<TokOld(toks[n]) + shift, TokNew(toks[n]) + shift>> :
        n \in {i \in 1..Len(toks) : TokKind(toks[i]) = kind}}

\* the hybrid tokens toks compose with the exact tokens when the indices of
\* the latter are raised by shift
ComposesWith(toks, exact, shift) ==
    /\ PairsOf(toks, "exact", 0) = PairsOf(exact, "exact", shift)
    /\ \A pair \in PairsOf(toks, "similarity", 0) :
          /\ pair[1] \in 1..Len(call.old_file_text)
          /\ pair[2] \in 1..Len(call.new_file_text)
          /\ \A match \in PairsOf(exact, "exact", shift) :
                pair[1] # match[1] /\ pair[2] # match[2]

\* C22: the exact-match tokens get_diff_hybrid returns are exactly the match
\* pairs get_diff returns on the same input, and every similarity token
\* pairs an old line and a new line of the files that get_diff both left
\* unmatched.  The pairs of get_diff are read as they are written or as
\* 0-based indices, whichever fits.
C22_StagesCompose ==
    HybridReturned =>
        \E shift \in {0, 1} :
            ComposesWith(ret, get_diff(call.old_file_text, call.new_file_text), shift)

\* the non-equal runs of the call of match_lines, as opcodes with 0-based
\* ranges [i1, i2) of old and [j1, j2) of new
RunsOf(old_lines, new_lines) ==
    SelectSeq(get_opcodes(old_lines, new_lines), LAMBDA op : op.tag # "equal")

\* the combined similarity of old line o and new line n (0-based) of the call
ScoreOf(o, n) ==
    combined_similarity(call.old_lines[o + 1], call.new_lines[n + 1],
                        get_context(call.old_lines, o, call.context_window),
                        get_context(call.new_lines, n, call.context_window),
                        DefaultAlpha)

\* the new index (0-based) pairs gives to old index o, NoIndex if none
PairedWith(pairs, o) ==
    IF \E n \in 1..Len(pairs) : pairs[n][1] = o + 1
    THEN pairs[CHOOSE n \in 1..Len(pairs) : pairs[n][1] = o + 1][2] - 1
    ELSE NoIndex

\* the new indices of run that no smaller old index of the run has taken
FreeFor(pairs, run, o) ==
    {n \in run.j1..(run.j2 - 1) :
        \A o2 \in run.i1..(o - 1) : PairedWith(pairs, o2) # n}

\* old index o of run has the new index the greedy choice gives it: the
\* free new index of the run of the highest score, the lowest of them when
\* several have it, if that score reaches the threshold; a score of 0.0
\* never makes a pair
GreedyChoice(pairs, run, o) ==
    LET n == PairedWith(pairs, o)
        free == FreeFor(pairs, run, o)
    IN  IF n # NoIndex
        THEN /\ n \in free
             /\ FLe(call.similarity_threshold, ScoreOf(o, n))
             /\ \A n2 \in free : FLe(ScoreOf(o, n2), ScoreOf(o, n))
             /\ \A n2 \in free : n2 < n => FLt(ScoreOf(o, n2), ScoreOf(o, n))
        ELSE \A n2 \in free :
                \/ FLt(ScoreOf(o, n2), call.similarity_threshold)
                \/ ScoreOf(o, n2) = F0

FindReturned == pc = "return" /\ call.fn = "find_bug_in_version"

\* the start (0-based) of the window of n lines of the file of the call
\* that scores highest, the earliest of them when several do
BestStart(n) ==
    CHOOSE start \in 0..(Len(call.file_version.preprocessed) - n) :
        \A other \in 0..(Len(call.file_version.preprocessed) - n) :
            /\ FLe(WindowScore(call.file_version, call.bug_signature, other),
                   WindowScore(call.file_version, call.bug_signature, start))
            /\ other < start =>
                   FLt(WindowScore(call.file_version, call.bug_signature, other),
                       WindowScore(call.file_version, call.bug_signature, start))

\* the BugMatch of the window of n lines that starts at start
MatchAt(start, n) ==
    [version |-> call.file_version.version,
     line_numbers |-> [i \in 1..n |-> start + i - 1],
     matched_lines |-> [i \in 1..n |-> call.file_version.lines[start + i]],
     confidence |-> WindowScore(call.file_version, call.bug_signature, start)]

\* C24: for a signature of n >= 1 normalized lines, find_bug_in_version
\* returns the window of n consecutive lines of the version with the highest
\* score 0.8 * average content score + 0.2 * context boost, the earliest on
\* a tie, when that score is at least the threshold, and no match when it
\* is not or when the version has fewer than n lines; the BugMatch has that
\* score as confidence and the n consecutive line numbers of the window.
C24_WindowSearch ==
    FindReturned =>
        LET n == Len(call.bug_signature.buggy_lines_normalized)
        IN  IF Len(call.file_version.preprocessed) < n THEN ret = NoMatch
            ELSE IF FLe(call.threshold,
                        WindowScore(call.file_version, call.bug_signature, BestStart(n)))
            THEN ret = MatchAt(BestStart(n), n)
            ELSE ret = NoMatch

\* C25: for every position k of the signature extract_bug_signature(before,
\* after) returns, buggy_lines[k] and buggy_lines_normalized[k] are the raw
\* and the normalized text of the line of before whose 1-based number is
\* line_numbers[k]; the three lists have the same length.
C25_SignatureContent ==
    SigReturned =>
        /\ Len(ret.buggy_lines) = Len(ret.line_numbers)
        /\ Len(ret.buggy_lines_normalized) = Len(ret.line_numbers)
        /\ \A k \in 1..Len(ret.line_numbers) :
            /\ ret.line_numbers[k] \in 1..Len(call.file_before_fix.lines)
            /\ ret.buggy_lines[k] = call.file_before_fix.lines[ret.line_numbers[k]]
            /\ ret.buggy_lines_normalized[k] =
                   call.file_before_fix.preprocessed[ret.line_numbers[k]]

\* lines[lo..hi] with 1-based bounds, clipped to the file
ClippedLines(lines, lo, hi) ==
    IF Max2(lo, 1) > Min2(hi, Len(lines)) THEN <<>>
    ELSE SubSeq(lines, Max2(lo, 1), Min2(hi, Len(lines)))

\* C26: when the signature extract_bug_signature returns has buggy line
\* numbers with minimum lo and maximum hi, context_before is the (at most
\* context_window) raw lines of before immediately preceding line lo and
\* context_after the (at most context_window) raw lines immediately
\* following line hi, both clipped to the file; neither holds a buggy line
\* nor skips the line next to the buggy range.
C26_SignatureContext ==
    (SigReturned /\ Len(ret.line_numbers) > 0) =>
        LET lo == SeqMin(ret.line_numbers)
            hi == SeqMax(ret.line_numbers)
            lines == call.file_before_fix.lines
        IN  /\ ret.context_before = ClippedLines(lines, lo - call.context_window, lo - 1)
            /\ ret.context_after = ClippedLines(lines, hi + 1, hi + call.context_window)

\* C27: on one FileVersionLoader, under any sequence of load_version,
\* clear_cache and trace_single_bug calls with the files rewritten in
\* between: a load_version(v) with caching of a cached version returns the
\* cached FileVersion whatever the file holds now, and an entry of the cache
\* is always the FileVersion read from the file by the load that made it (a
\* load with caching of a version not cached), so that it is the one of the
\* most recent such load since the last clear_cache; a load that raises
\* FileVersionNotFound leaves the cache as it is; load_version(v,
\* use_cache=False) returns what the file holds and leaves the cache as it
\* is; no step, of a trace or other, changes the FileVersion cached for a
\* version, and only clear_cache removes one.
C27_VersionCache ==
    [][LET cache == loader.cache
           after == loader'.cache
           v == call'.version
           cached == call'.use_cache /\ v \in DOMAIN cache
       IN  /\ (LoaderIdle /\ call'.fn = "load_version") =>
                /\ cached => (pc' = "return" /\ ret' = cache[v] /\ after = cache)
                /\ (~cached /\ v \in DOMAIN call.files) =>
                      (pc' = "return" /\ ret' = LoadedVersion(call.files, v))
                /\ (~cached /\ v \notin DOMAIN call.files) => pc' = "raise"
                /\ pc' = "raise" => after = cache
                /\ ~call'.use_cache => after = cache
           /\ \A u \in DOMAIN cache \cap DOMAIN after : after[u] = cache[u]
           /\ \A u \in DOMAIN after \ DOMAIN cache :
                /\ u \in DOMAIN call.files
                /\ after[u] = LoadedVersion(call.files, u)
                /\ call'.fn \in {"load_version", "trace_single_bug"}
           /\ DOMAIN cache \ DOMAIN after # {} => call'.fn = "clear_cache"]_vars

\* load_version with caching has returned the FileVersion of the cache, which
\* is not what the file of the version holds any more
C27_Witness ==
    /\ pc = "return"
    /\ call.fn = "load_version"
    /\ call.use_cache
    /\ call.version \in DOMAIN call.files
    /\ ret = loader.cache[call.version]
    /\ ret # LoadedVersion(call.files, call.version)

\* the mapping built by the call of build_line_mapping, also after a lookup
MappingBuilt ==
    IF pc = "return" /\ call.fn = "build_line_mapping" THEN ret ELSE ret.mapping
MapReturned ==
    pc = "return" /\ call.fn \in {"build_line_mapping", "get_old_line", "get_new_line"}

\* the <<old, new>> pairs of the tokens of a kind
PairsOfKind(toks, kind) ==
    {<<TokOld(toks[n]), TokNew(toks[n])>> : n \in {i \in 1..Len(toks) : TokKind(toks[i]) = kind}}

\* the <<value, key>> pairs of the items of a dict
ItemsOf(d) == {<<d[i][2], d[i][1]>> : i \in 1..Len(d)}

\* C28: build_line_mapping records each 'x:y' token as exact_matches[y] = x,
\* each 'x~y' as similarity_matches[y] = x, each 'x-' in deletions and each
\* 'y+' in insertions, and nothing else; on a token list that satisfies the
\* partition invariant get_old_line(y) is x for every matched pair (x, y)
\* and None for every inserted y, get_new_line(x) is y for every matched
\* pair and None for every deleted x, and get_new_line(get_old_line(y)) = y
\* for every matched new line y.
C28_LineMappingLookups ==
    MapReturned =>
        LET toks == call.diff_operations
            m == MappingBuilt
            matched == PairsOfKind(toks, "exact") \cup PairsOfKind(toks, "similarity")
        IN  /\ ItemsOf(m.exact_matches) = PairsOfKind(toks, "exact")
            /\ ItemsOf(m.similarity_matches) = PairsOfKind(toks, "similarity")
            /\ \A y \in {p[2] : p \in PairsOfKind(toks, "exact")} :
                  HasKey(m.exact_matches, y)
            /\ m.deletions =
                  {TokOld(toks[n]) : n \in {i \in 1..Len(toks) : TokKind(toks[i]) = "deletion"}}
            /\ m.insertions =
                  {TokNew(toks[n]) : n \in {i \in 1..Len(toks) : TokKind(toks[i]) = "insertion"}}
            /\ call.fn = "get_old_line" =>
                /\ \A p \in matched : p[2] = call.line =>
                      (ret.line = p[1] /\ get_new_line(m, ret.line) = call.line)
                /\ call.line \in m.insertions => ret.line = NoIndex
            /\ call.fn = "get_new_line" =>
                /\ \A p \in matched : p[1] = call.line => ret.line = p[2]
                /\ call.line \in m.deletions => ret.line = NoIndex

\* get_old_line has been asked for a matched new line whose old line has
\* another number, in a diff that also holds a deletion and an insertion
C28_Witness ==
    /\ pc = "return"
    /\ call.fn = "get_old_line"
    /\ ret.line # NoIndex
    /\ ret.line # call.line
    /\ ret.mapping.deletions # {}
    /\ ret.mapping.insertions # {}

\* the versions of the matches of a lineage
VersionsWithBug(lineage) ==
    {lineage.versions_with_bug[i].version : i \in 1..Len(lineage.versions_with_bug)}

\* C29: when the signature extracted from (F-1, F) is not empty,
\* find_bug_in_version on version F-1 itself with the threshold 0.7 returns
\* a match, so that trace_single_bug ends with version F-1 among
\* versions_with_bug and never with introduction_version -1.
C29_SelfMatch ==
    (/\ pc = "return"
     /\ call.fn = "trace_single_bug"
     /\ ~is_empty(ret.signature)) =>
        /\ find_bug_in_version(frame.file_before_fix, ret.signature, TraceThreshold) # NoMatch
        /\ (call.bug_fix_version - 1) \in VersionsWithBug(ret)
        /\ ret.introduction_version # NoIndex

\* trace_single_bug has returned a BugLineage
LineageReturned == pc = "return" /\ call.fn = "trace_single_bug"

\* C30: in every BugLineage trace_single_bug returns, trace_complete holds
\* if and only if introduction_version >= 0, if and only if
\* versions_with_bug is not empty; when it is not empty its versions are
\* ascending and are exactly introduction_version..F-1, introduction_lines
\* are the line numbers of the match at introduction_version and
\* commits_between is F - introduction_version; when it is empty the
\* confidence is 0.0 and commits_between is 0.
C30_LineageConsistent ==
    LineageReturned =>
        LET with_bug == ret.versions_with_bug
            F == call.bug_fix_version
        IN  /\ ret.trace_complete <=> ret.introduction_version >= 0
            /\ ret.trace_complete <=> Len(with_bug) > 0
            /\ Len(with_bug) > 0 =>
                /\ \A i \in 1..Len(with_bug) :
                      with_bug[i].version = ret.introduction_version + i - 1
                /\ with_bug[Len(with_bug)].version = F - 1
                /\ ret.introduction_lines = with_bug[1].line_numbers
                /\ ret.commits_between = F - ret.introduction_version
            /\ Len(with_bug) = 0 =>
                /\ FCmp(ret.confidence, F0) = 0
                /\ ret.commits_between = 0

\* a lineage has been returned whose bug is in more than one version, the
\* oldest of them not the oldest version there is
C30_Witness ==
    /\ LineageReturned
    /\ Len(ret.versions_with_bug) > 1
    /\ ret.introduction_version > 0
    /\ (ret.introduction_version - 1) \in DOMAIN call.files

====
